---------------------------- MODULE Spec2Model ----------------------------
(***************************************************************************)
(* Client-side request orchestration of the lunagrid front end.            *)
(*                                                                         *)
(*   - the coin-list helpers of the report page (normalizeCoinList,        *)
(*     detectWatchlistFromLatest, reconcileWatchlist);                     *)
(*   - the report page (ReportPrice): preview scheduling effect,           *)
(*     callPreview, its abort controller and request counter;              *)
(*   - the ETL page (App): the preview effect and its cleanup.             *)
(*                                                                         *)
(* Strings are sequences of character codes, so that trim() and            *)
(* toLowerCase() are computed and not assumed.  Root renders exactly one   *)
(* of the two pages, so one behaviour follows one mounted page.  A React   *)
(* event handler, the render it causes and the effects of that render are  *)
(* one step; every await and every timer is a step of its own.             *)
(***************************************************************************)
EXTENDS Integers, Sequences, FiniteSets, TLC

VARIABLES
    \* ---- which page is mounted (Root.jsx renders App or ReportPrice)
    view, mounted,
    \* ---- state shared in name by both pages (useState / useRef)
    file, filesChosen, previewReqRef, requests,
    \* ---- ReportPrice
    asset, includeBot, coinsUSD, coinsTHB, selected,
    rawPreview, cleanPreview, meta, loadingPreview, errorMsg,
    abortRef, prevPreviewConfigRef, timers,
    \* ---- App (ETL)
    lang, previewData, previewLoading, ctrl, overrideErrors,
    \* ---- observers of the run (not program state)
    inputs, elapsed, lastChange, issued, settersAfterUnmount,
    \* ---- ReportPrice: the watchlists, the "watchlist only" switch, the
    \* number of setItem(rp_watchlists_v1) calls and the outcome of the
    \* last run of the reconcile effect
    watchlists, watchlistOnly, watchlistWrites, recomputed,
    \* ---- AuthBar, the token store and a second tab on the same storage
    storageDenied, storedToken, authMounted, token, user, checkingSession,
    checks, mode, submitting, logins, closeTimerRef,
    otherToken, toThisTab, toOtherTab,
    \* observers: session checks and logins started, the last value given
    \* to writeStoredToken and what the last settled check did
    started, written, lastCheck,
    \* ---- the theme: the observed roots, the storage keys, the system
    \* preference, the page on screen, ModeToggle's mode, App's theme, the
    \* events dispatched and the setItem calls completed in the last step, and the
    \* result of readTheme
    dataTheme, darkClass, lightClass, colorScheme, themeStore, themeDenied,
    prefersDark, themePage, themeMode, theme, dispatched, themeWrites, themeOut,
    \* observer: the last step was a change made outside this tab's writers
    external,
    \* ---- the language switch of i18n.js: the language, the stored
    \* language, the targets carrying the class lang-switching, the pending
    \* timeouts, the module variable langTransitionTimer; observers: the
    \* time since the last effective switch, the number of switches and the
    \* number of switches made while a timeout was pending
    i18nLanguage, langStored, langDenied, langSwitching, langTimers,
    langTransitionTimer, sinceSwitch, langSwitches, langRestarts,
    \* ---- the downloads: App's loading, ReportPrice's loadingDownload, the
    \* requests in flight, the name under which the last settled download
    \* saved a file, the error message it surfaced; and, for the file-name
    \* rule alone, a header, a flow and the name chosen
    loading, loadingDownload, downloads, saved, surfaced,
    disposition, dlFlow, filename,
    \* observer: the file for which "download anyway" was last ticked
    overrideFor,
    \* ---- Root: the path of usePath, the path on screen, the phase of the
    \* page transition, the loading bar, the pending timers behind
    \* loadingTimerRef and pageTransitionTimerRef, window.location.pathname;
    \* observer: the calls of navigate and the popstate events so far
    path, displayPath, pageTransitionPhase, routeLoading, loadingTimerRef,
    pageTransitionTimerRef, pathname, navigations,
    \* ---- the pure helpers under test
    fnPc, fnItems, fnPrev, fnUsd, fnThb, fnOut, fnOut2

pageVars == <<view, mounted, file, filesChosen, previewReqRef, requests>>
reportVars == <<asset, includeBot, coinsUSD, coinsTHB, selected,
                rawPreview, cleanPreview, meta, loadingPreview, errorMsg,
                abortRef, prevPreviewConfigRef, timers>>
appVars == <<lang, previewData, previewLoading, ctrl, overrideErrors>>
observerVars == <<inputs, elapsed, lastChange, issued, settersAfterUnmount>>
fnVars == <<fnPc, fnItems, fnPrev, fnUsd, fnThb, fnOut, fnOut2>>
watchVars == <<watchlists, watchlistOnly, watchlistWrites, recomputed>>
\* what the actions of a page leave alone, and what the helpers leave alone
authVars == <<storageDenied, storedToken, authMounted, token, user,
              checkingSession, checks, mode, submitting, logins, closeTimerRef,
              otherToken, toThisTab, toOtherTab, started, written, lastCheck>>
themeVars == <<dataTheme, darkClass, lightClass, colorScheme, themeStore,
               themeDenied, prefersDark, themePage, themeMode, theme,
               dispatched, themeWrites, themeOut, external>>
langVars == <<i18nLanguage, langStored, langDenied, langSwitching, langTimers,
              langTransitionTimer, sinceSwitch, langSwitches, langRestarts>>
downloadVars == <<loading, loadingDownload, downloads, saved, surfaced,
                  disposition, dlFlow, filename, overrideFor>>
rootVars == <<path, displayPath, pageTransitionPhase, routeLoading,
              loadingTimerRef, pageTransitionTimerRef, pathname, navigations>>
offPageVars == <<fnVars, authVars, themeVars, langVars, downloadVars, rootVars>>
pageSideVars == <<pageVars, reportVars, appVars, observerVars, watchVars>>
offFnVars == <<pageSideVars, authVars, themeVars, langVars, downloadVars,
              rootVars>>
offAuthVars == <<pageVars, reportVars, appVars, watchVars, fnVars,
                 elapsed, lastChange, issued, settersAfterUnmount, themeVars,
                 langVars, downloadVars, rootVars>>
offThemeVars == <<pageSideVars, fnVars, authVars, langVars, downloadVars,
                 rootVars>>
offLangVars == <<pageSideVars, fnVars, authVars, themeVars, downloadVars,
                rootVars>>
offRootVars == <<pageSideVars, fnVars, authVars, themeVars, langVars,
                 downloadVars>>
vars == <<pageSideVars, fnVars, authVars, themeVars, langVars, downloadVars,
          rootVars>>

-----------------------------------------------------------------------------
(***************************************************************************)
(* Bounds of the model.                                                    *)
(***************************************************************************)
MaxLen == 3          \* longest coin list given to normalizeCoinList
MaxPrev == 2         \* longest stored watchlist given to reconcileWatchlist
MaxFiles == 2        \* files chosen in one behaviour
MaxRequests == 3     \* preview requests issued in one behaviour
MaxInputs == 3       \* user inputs (clicks, drops) in one behaviour
TickMs == 130        \* granularity of the clock

(***************************************************************************)
(* Program constants.                                                      *)
(***************************************************************************)
DebounceMs == 260            \* delay of a non-blocking preview
WatchlistFallback == 12      \* available.slice(0, Math.min(length, 12))

-----------------------------------------------------------------------------
(***************************************************************************)
(* Strings: sequences of character codes.                                  *)
(***************************************************************************)
BTC == <<66, 84, 67>>
btc == <<98, 116, 99>>
ETH == <<69, 84, 72>>
eth == <<101, 116, 104>>
ethPadded == <<32, 101, 116, 104, 32>>      \* " eth "
XRP == <<88, 82, 80>>
EmptyStr == <<>>
BlankStr == <<32, 32>>

\* String.prototype.toLowerCase on the ASCII range
LowerChar(c) == IF c >= 65 /\ c <= 90 THEN c + 32 ELSE c
toLowerCase(s) == [i \in 1..Len(s) |-> LowerChar(s[i])]

\* String.prototype.trim: white space is stripped at both ends
IsSpace(c) == c \in {9, 10, 11, 12, 13, 32}
RECURSIVE TrimStart(_)
TrimStart(s) ==
    IF s # <<>> /\ IsSpace(Head(s)) THEN TrimStart(Tail(s)) ELSE s
RECURSIVE TrimEnd(_)
TrimEnd(s) ==
    IF s # <<>> /\ IsSpace(s[Len(s)])
    THEN TrimEnd(SubSeq(s, 1, Len(s) - 1))
    ELSE s
trim(s) == TrimEnd(TrimStart(s))

\* a value that is not an array (parsed?.USD of a stored object without USD)
Undefined == << <<-1>> >>
IsArray(items) == items # Undefined

Range(s) == {s[i] : i \in 1..Len(s)}
SeqsUpTo(S, n) == UNION {[1..k -> S] : k \in 0..n}

-----------------------------------------------------------------------------
(***************************************************************************)
(* areSameStringArray, normalizeCoinList, detectWatchlistFromLatest,       *)
(* reconcileWatchlist, as the code computes them.                          *)
(***************************************************************************)
areSameStringArray(a, b) ==
    /\ Len(a) = Len(b)
    /\ \A i \in 1..Len(a) : a[i] = b[i]

\* the loop of normalizeCoinList: `seen` holds the lower-cased keys
RECURSIVE NormalizeLoop(_, _, _)
NormalizeLoop(items, seen, out) ==
    IF items = <<>> THEN out
    ELSE LET coin == trim(Head(items))
             key == toLowerCase(coin)
         IN  IF coin = <<>> THEN NormalizeLoop(Tail(items), seen, out)
             ELSE IF key \in seen THEN NormalizeLoop(Tail(items), seen, out)
             ELSE NormalizeLoop(Tail(items), seen \cup {key}, Append(out, coin))

\* a plausible slip: duplicates are looked up by the coin, not by its key
RECURSIVE NormalizeLoopExact(_, _, _)
NormalizeLoopExact(items, seen, out) ==
    IF items = <<>> THEN out
    ELSE LET coin == trim(Head(items))
         IN  IF coin = <<>> THEN NormalizeLoopExact(Tail(items), seen, out)
             ELSE IF coin \in seen THEN NormalizeLoopExact(Tail(items), seen, out)
             ELSE NormalizeLoopExact(Tail(items), seen \cup {coin}, Append(out, coin))

normalizeCoinListExact(items) ==
    IF ~IsArray(items) THEN <<>> ELSE NormalizeLoopExact(items, {}, <<>>)

normalizeCoinList(items) ==
    IF ~IsArray(items) THEN <<>> ELSE NormalizeLoop(items, {}, <<>>)

KeySet(coins) == {toLowerCase(coins[i]) : i \in 1..Len(coins)}

Min(a, b) == IF a < b THEN a ELSE b

detectWatchlistFromLatest(assetCoins, usdCoins, thbCoins) ==
    LET available == normalizeCoinList(assetCoins)
        usdSet == KeySet(normalizeCoinList(usdCoins))
        thbSet == KeySet(normalizeCoinList(thbCoins))
        overlap == SelectSeq(available,
                       LAMBDA coin : /\ toLowerCase(coin) \in usdSet
                                     /\ toLowerCase(coin) \in thbSet)
    IN  IF Len(available) = 0 THEN <<>>
        ELSE IF Len(overlap) # 0 THEN overlap
        ELSE SubSeq(available, 1, Min(Len(available), WatchlistFallback))

\* the fault in which the map gives back the key it was asked for
MapGetKey(available, key) ==
    IF \E i \in 1..Len(available) : toLowerCase(available[i]) = key
    THEN key ELSE <<>>

\* new Map(available.map(coin => [key, coin])).get(key); <<>> when absent
MapGet(available, key) ==
    LET hits == {i \in 1..Len(available) : toLowerCase(available[i]) = key}
    IN  IF hits = {} THEN <<>>
        ELSE available[CHOOSE i \in hits : \A j \in hits : j <= i]

\* a plausible slip: the kept entries of the stored list are ignored
reconcileWatchlistNoKeep(prevWatchlist, assetCoins, usdCoins, thbCoins) ==
    detectWatchlistFromLatest(normalizeCoinList(assetCoins), usdCoins, thbCoins)

reconcileWatchlist(prevWatchlist, assetCoins, usdCoins, thbCoins) ==
    LET available == normalizeCoinList(assetCoins)
        prev == normalizeCoinList(prevWatchlist)
        mapped == [i \in 1..Len(prev) |-> MapGet(available, toLowerCase(prev[i]))]
        kept == SelectSeq(mapped, LAMBDA coin : coin # <<>>)
    IN  IF Len(available) = 0 THEN <<>>
        ELSE IF Len(kept) # 0 THEN kept
        ELSE detectWatchlistFromLatest(available, usdCoins, thbCoins)

-----------------------------------------------------------------------------
(***************************************************************************)
(* Inputs of the helpers.                                                  *)
(***************************************************************************)
RawItems == {BTC, btc, ETH, eth, ethPadded, XRP, EmptyStr, BlankStr}
AvailItems == {BTC, btc, ETH, ethPadded, XRP}
PrevItems == {BTC, btc, ETH}
\* more coins than the fallback keeps: K1, K2, ...
ManyCoins == [i \in 1..(WatchlistFallback + 1) |-> <<75, 48 + i>>]
Universes == {<<>>, <<BTC, ETH>>, <<ETH, XRP>>, <<btc, XRP>>}
\* a stored watchlist is always the output of normalizeCoinList
StoredLists == {normalizeCoinList(s) : s \in SeqsUpTo(PrevItems, MaxPrev)}

-----------------------------------------------------------------------------
(***************************************************************************)
(* Values of the page state.                                               *)
(***************************************************************************)
NoFile == 0                      \* file === null
NoRequest == 0                   \* abortRef.current === null, no ctrl
EmptyPreview == 0                \* EMPTY_PREVIEW / meta === null
NoError == 0                     \* errorMsg === ""
NoTimer == {}
NoPreviewData == [kind |-> "null", req |-> 0, error_count |-> 0]  \* previewData === null
NotIssued == [n |-> 0, at |-> 0, loader |-> FALSE]

\* the state of a page that is not rendered, and of helpers that are not run
ReportUnused ==
    /\ asset = "USD" /\ includeBot = TRUE
    /\ coinsUSD = <<>> /\ coinsTHB = <<>> /\ selected = <<>>
    /\ rawPreview = EmptyPreview /\ cleanPreview = EmptyPreview
    /\ meta = EmptyPreview
    /\ loadingPreview = FALSE /\ errorMsg = NoError
    /\ abortRef = NoRequest
    /\ prevPreviewConfigRef = [file |-> NoFile, asset |-> "USD", includeBot |-> TRUE]
    /\ timers = NoTimer
AppUnused ==
    /\ lang = "en" /\ previewData = NoPreviewData
    /\ previewLoading = FALSE /\ ctrl = NoRequest
    /\ overrideErrors = FALSE
PageUnused ==
    /\ view = "none" /\ mounted = FALSE
    /\ file = NoFile /\ filesChosen = 0
    /\ previewReqRef = 0 /\ requests = <<>>
\* parseStoredWatchlists when rp_watchlists_v1 is not set
NoWatchlists == [USD |-> <<>>, THB |-> <<>>]
WatchUnused ==
    /\ watchlists = NoWatchlists /\ watchlistOnly = FALSE
    /\ watchlistWrites = 0 /\ recomputed = "none"
\* ---- values of the AuthBar state
NoToken == ""                    \* token === "" / no item under eglc_auth_token
NoUser == ""                     \* user === null
NoCheck == [token |-> NoToken, outcome |-> "none", ignored |-> FALSE]
NotWritten == "-"
AuthUnused ==
    /\ storageDenied = FALSE /\ storedToken = NoToken
    /\ authMounted = FALSE /\ token = NoToken /\ user = NoUser
    /\ checkingSession = FALSE /\ checks = <<>>
    /\ mode = "none" /\ submitting = FALSE /\ logins = <<>>
    /\ closeTimerRef = FALSE
    /\ otherToken = NoToken /\ toThisTab = <<>> /\ toOtherTab = <<>>
    /\ started = 0 /\ written = NotWritten /\ lastCheck = NoCheck
\* ---- values of the theme state
Roots == <<"html", "body", "root", "child">>     \* themeTargets()
THEME_KEYS == <<"theme", "vite-ui-theme", "eglc_theme">>
RootSet == {Roots[i] : i \in DOMAIN Roots}
KeySetOfTheme == {THEME_KEYS[i] : i \in DOMAIN THEME_KEYS}
NoAttr == "none"                 \* getAttribute / getItem returns null
Unread == "unread"
ThemeUnused ==
    /\ dataTheme = [r \in RootSet |-> NoAttr]
    /\ darkClass = {} /\ lightClass = {} /\ colorScheme = NoAttr
    /\ themeStore = [k \in KeySetOfTheme |-> NoAttr]
    /\ themeDenied = FALSE /\ prefersDark = FALSE
    /\ themePage = "none" /\ themeMode = NoAttr /\ theme = NoAttr
    /\ dispatched = 0 /\ themeWrites = 0 /\ themeOut = Unread
    /\ external = FALSE
\* ---- values of the downloads
NoName == <<>>                   \* no file saved
NoMessage == "none"              \* no message surfaced
NullHeader == <<"null">>         \* headers.get(...) returns null
DownloadUnused ==
    /\ loading = FALSE /\ loadingDownload = FALSE /\ downloads = <<>>
    /\ saved = NoName /\ surfaced = NoMessage
    /\ disposition = NullHeader /\ dlFlow = "none" /\ filename = NoName
    /\ overrideFor = NoFile
\* ---- values of the language switch
NoLangTimer == 0                 \* langTransitionTimer = null
LangUnused ==
    /\ i18nLanguage = "en" /\ langStored = NoAttr /\ langDenied = FALSE
    /\ langSwitching = {} /\ langTimers = {} /\ langTransitionTimer = NoLangTimer
    /\ sinceSwitch = 0 /\ langSwitches = 0 /\ langRestarts = 0
\* ---- values of Root
NoPageTimer == [stage |-> "none", to |-> "none"]   \* pageTransitionTimerRef = null
RootUnused ==
    /\ path = "/" /\ displayPath = "/" /\ pathname = "/"
    /\ pageTransitionPhase = "idle" /\ routeLoading = FALSE
    /\ loadingTimerRef = FALSE /\ pageTransitionTimerRef = NoPageTimer
    /\ navigations = 0
ObserversUnused ==
    /\ inputs = 0 /\ elapsed = 0 /\ lastChange = "none" /\ issued = NotIssued
    /\ settersAfterUnmount = {}
FnUnused ==
    /\ fnPc = "unused" /\ fnItems = <<>> /\ fnPrev = <<>>
    /\ fnUsd = <<>> /\ fnThb = <<>> /\ fnOut = <<>> /\ fnOut2 = <<>>

-----------------------------------------------------------------------------
(***************************************************************************)
(* Requests in flight: a function from request ids to the state of the     *)
(* fetch.  phase "fetch": the fetch() promise is pending; phase "body":    *)
(* the response headers arrived (ok = res.ok) and res.json() / res.text()  *)
(* is pending.                                                             *)
(***************************************************************************)
Put(f, k, v) == [x \in (DOMAIN f) \cup {k} |-> IF x = k THEN v ELSE f[x]]
Drop(f, k) == [x \in (DOMAIN f) \ {k} |-> f[x]]

\* the fault in which the previous controller is never aborted
abortNothing(reqs, k) == reqs

\* AbortController.abort() of request k; nothing when k has settled
abort(reqs, k) ==
    IF k \in DOMAIN reqs THEN [reqs EXCEPT ![k].aborted = TRUE] ELSE reqs

\* the fault in which every response counts as the latest
IsLatestAlways(k) == TRUE

\* previewReqRef.current === requestId
IsLatest(k) == previewReqRef = k

Live == {k \in DOMAIN requests : ~requests[k].aborted}

-----------------------------------------------------------------------------
(***************************************************************************)
(* ReportPrice.                                                            *)
(***************************************************************************)
\* what the server may put in payload.coins
CoinPayloads ==
    { [USD |-> <<ETH, BTC>>, THB |-> <<ETH>>],
      [USD |-> <<BTC>>, THB |-> <<>>] }

AvailableCoins(a, usd, thb) == IF a = "USD" THEN usd ELSE thb
availableCoins == AvailableCoins(asset, coinsUSD, coinsTHB)

\* the selected coins re-sorted by their place in the available list
inAvailableOrder(avail, sel) ==
    SelectSeq(avail, LAMBDA coin :
        \E i \in 1..Len(sel) : toLowerCase(sel[i]) = toLowerCase(coin))

\* useMemo orderedSelectedCoins: walks `selected` (a Set, in insertion
\* order) and pushes the available spelling of each hit
orderedSelectedCoins(avail, sel) ==
    IF Len(sel) = 0 \/ Len(avail) = 0 THEN <<>>
    ELSE LET hits == [i \in 1..Len(sel) |-> MapGet(avail, toLowerCase(sel[i]))]
         IN  SelectSeq(hits, LAMBDA hit : hit # <<>>)

\* new Set(list): exact duplicates dropped, first place kept
RECURSIVE SetOf(_, _)
SetOf(list, out) ==
    IF list = <<>> THEN out
    ELSE IF Head(list) \in Range(out) THEN SetOf(Tail(list), out)
    ELSE SetOf(Tail(list), Append(out, Head(list)))

\* toggleCoin's updater on the Set `prev`
Toggled(prev, c) ==
    IF c \in Range(prev) THEN SelectSeq(prev, LAMBDA x : x # c)
    ELSE Append(prev, c)

\* useMemo watchlistCoins and watchlistKeySet
watchlistCoins == normalizeCoinList(watchlists[asset])
watchlistKeySet == KeySet(watchlistCoins)

\* the fault in which the recomputed lists always count as new
neverSameStringArray(a, b) == FALSE

\* are the recomputed lists the stored ones
sameWatchlist(a, b) == areSameStringArray(a, b)

\* the reconcile effect on [coinsTHB, coinsUSD, file], and the persist
\* effect on [watchlists] that a new state object triggers
WatchlistEffect(f, usd, thb) ==
    IF f = NoFile \/ (Len(usd) = 0 /\ Len(thb) = 0)
    THEN UNCHANGED <<watchlists, watchlistWrites, recomputed>>
    ELSE LET prev == watchlists
             nextUSD == reconcileWatchlist(prev.USD, usd, usd, thb)
             nextTHB == reconcileWatchlist(prev.THB, thb, usd, thb)
             same == /\ sameWatchlist(prev.USD, nextUSD)
                     /\ sameWatchlist(prev.THB, nextTHB)
         IN  /\ watchlists' = IF same THEN prev
                              ELSE [USD |-> nextUSD, THB |-> nextTHB]
             /\ watchlistWrites' = IF same THEN watchlistWrites
                                   ELSE watchlistWrites + 1
             /\ recomputed' = IF same THEN "same" ELSE "changed"

\* cleanup of the scheduling effect: clearTimeout(tmr)
clearTimeout(ts) == {}

\* the scheduling effect, run with the values of the new render
ScheduledTimers(f, a, ib, sel, avail) ==
    IF f = NoFile THEN clearTimeout(timers)
    ELSE LET prevCfg == prevPreviewConfigRef
             isBlockingPreview == \/ prevCfg.file # f
                                  \/ prevCfg.asset # a
                                  \/ prevCfg.includeBot # ib
         IN  clearTimeout(timers) \cup
             { [ remaining |-> IF isBlockingPreview THEN 0 ELSE DebounceMs,
                 file |-> f, asset |-> a, includeBot |-> ib,
                 coins |-> IF Len(sel) = 0 THEN <<>>
                           ELSE orderedSelectedCoins(avail, sel),
                 showLoader |-> isBlockingPreview ] }

PreviewEffect(f, a, ib, sel, avail) ==
    /\ timers' = ScheduledTimers(f, a, ib, sel, avail)
    /\ prevPreviewConfigRef' = [file |-> f, asset |-> a, includeBot |-> ib]

\* ---- observers: the kind of the last user change ("structural": file,
\* asset or includeBot changed, and it stays so until a call is issued;
\* "refine": toggleCoin, selectAll or clearAll; "reset": the button of the
\* asset already chosen), the time since then and the calls issued since
ElapsedCap == DebounceMs + TickMs
NoteChange(kind, fileAfter) ==
    /\ inputs < MaxInputs
    /\ inputs' = inputs + 1
    /\ elapsed' = 0
    /\ issued' = NotIssued
    /\ lastChange' =
         IF fileAfter = NoFile THEN "none"
         ELSE IF kind = "structural" THEN "structural"
         ELSE IF lastChange = "structural" /\ issued.n = 0 THEN "structural"
         ELSE kind

ReportMounted == view = "report" /\ mounted

setFileFromInput(f) ==
    /\ ReportMounted
    /\ \/ f = NoFile
       \/ f = filesChosen + 1 /\ f <= MaxFiles
    /\ file' = f
    /\ filesChosen' = IF f = NoFile THEN filesChosen ELSE f
    /\ errorMsg' = NoError
    /\ meta' = EmptyPreview
    /\ coinsUSD' = <<>> /\ coinsTHB' = <<>>
    /\ rawPreview' = EmptyPreview /\ cleanPreview' = EmptyPreview
    /\ selected' = <<>>
    /\ PreviewEffect(f, asset, includeBot, <<>>, <<>>)
    /\ WatchlistEffect(f, <<>>, <<>>)
    /\ NoteChange("structural", f)
    /\ UNCHANGED <<view, mounted, previewReqRef, requests, asset, includeBot,
                   loadingPreview, abortRef, settersAfterUnmount>>
    /\ UNCHANGED <<appVars, watchlistOnly, offPageVars>>

\* the asset buttons: setAsset(a); resetSelectionOnly()
selectAsset(a) ==
    /\ ReportMounted
    /\ asset' = a
    /\ selected' = <<>>
    /\ PreviewEffect(file, a, includeBot, <<>>, AvailableCoins(a, coinsUSD, coinsTHB))
    /\ NoteChange(IF a # asset THEN "structural" ELSE "reset", file)
    /\ UNCHANGED <<pageVars, includeBot, coinsUSD, coinsTHB, rawPreview,
                   cleanPreview, meta, loadingPreview, errorMsg, abortRef,
                   settersAfterUnmount>>
    /\ UNCHANGED <<appVars, watchVars, offPageVars>>

\* the rate switch: setIncludeBot(v => !v)
toggleIncludeBot ==
    /\ ReportMounted
    /\ includeBot' = ~includeBot
    /\ PreviewEffect(file, asset, ~includeBot, selected, availableCoins)
    /\ NoteChange("structural", file)
    /\ UNCHANGED <<pageVars, asset, coinsUSD, coinsTHB, selected, rawPreview,
                   cleanPreview, meta, loadingPreview, errorMsg, abortRef,
                   settersAfterUnmount>>
    /\ UNCHANGED <<appVars, watchVars, offPageVars>>

\* a change of the selection alone: the three handlers share this tail
SelectionChange(sel) ==
    /\ ReportMounted
    /\ selected' = sel
    /\ PreviewEffect(file, asset, includeBot, sel, availableCoins)
    /\ NoteChange("refine", file)
    /\ UNCHANGED <<pageVars, asset, includeBot, coinsUSD, coinsTHB, rawPreview,
                   cleanPreview, meta, loadingPreview, errorMsg, abortRef,
                   settersAfterUnmount>>
    /\ UNCHANGED <<appVars, watchVars, offPageVars>>

toggleCoin(c) == c \in Range(availableCoins) /\ SelectionChange(Toggled(selected, c))
\* selectAll: the scope is the watchlist's part of the available coins
\* when "watchlist only" is on
selectAll ==
    LET scope == IF watchlistOnly
                 THEN SelectSeq(availableCoins, LAMBDA coin :
                          toLowerCase(coin) \in watchlistKeySet)
                 ELSE availableCoins
    IN  SelectionChange(SetOf(scope, <<>>))

\* the two buttons of the "watchlist only" switch
setWatchlistOnly(b) ==
    /\ ReportMounted
    /\ b # watchlistOnly          \* the same value: no render
    /\ inputs < MaxInputs
    /\ inputs' = inputs + 1
    /\ watchlistOnly' = b
    /\ UNCHANGED <<pageVars, reportVars, appVars, offPageVars>>
    /\ UNCHANGED <<elapsed, lastChange, issued, settersAfterUnmount,
                   watchlists, watchlistWrites, recomputed>>
clearAll == SelectionChange(<<>>)

resetAll ==
    /\ ReportMounted
    /\ file' = NoFile
    /\ asset' = "USD" /\ includeBot' = TRUE
    /\ coinsUSD' = <<>> /\ coinsTHB' = <<>>
    /\ selected' = <<>>
    /\ rawPreview' = EmptyPreview /\ cleanPreview' = EmptyPreview
    /\ meta' = EmptyPreview
    /\ errorMsg' = NoError
    /\ timers' = clearTimeout(timers)
    /\ prevPreviewConfigRef' = [file |-> NoFile, asset |-> "USD", includeBot |-> TRUE]
    /\ WatchlistEffect(NoFile, <<>>, <<>>)
    /\ NoteChange("structural", NoFile)
    /\ UNCHANGED <<view, mounted, filesChosen, previewReqRef, requests,
                   loadingPreview, abortRef, settersAfterUnmount>>
    /\ UNCHANGED <<appVars, watchlistOnly, offPageVars>>

\* callPreview up to its first await, called by the timer of the effect
callPreview(currentFile, opts, showLoader) ==
    LET requestId == previewReqRef + 1
    IN  /\ currentFile # NoFile
        /\ requestId <= MaxRequests
        /\ previewReqRef' = requestId
        /\ requests' = Put(abort(requests, abortRef), requestId,
                           [ file |-> currentFile, asset |-> opts.asset,
                             includeBot |-> opts.includeBot, coins |-> opts.coins,
                             showLoader |-> showLoader, aborted |-> FALSE,
                             phase |-> "fetch", ok |-> FALSE ])
        /\ abortRef' = requestId
        /\ loadingPreview' = IF showLoader THEN TRUE ELSE loadingPreview
        /\ errorMsg' = NoError

TimerFires(t) ==
    /\ ReportMounted
    /\ t \in timers /\ t.remaining = 0
    /\ timers' = timers \ {t}
    /\ callPreview(t.file, t, t.showLoader)
    /\ issued' = [n |-> Min(issued.n + 1, 2), at |-> elapsed, loader |-> t.showLoader]
    /\ UNCHANGED <<view, mounted, file, filesChosen, asset, includeBot,
                   coinsUSD, coinsTHB, selected, rawPreview, cleanPreview, meta,
                   prevPreviewConfigRef, inputs, elapsed, lastChange,
                   settersAfterUnmount>>
    /\ UNCHANGED <<appVars, watchVars, offPageVars>>

\* time passes up to the next timer that is due
Tick ==
    /\ ReportMounted
    /\ timers # {}
    /\ \A t \in timers : t.remaining > 0
    /\ LET due == CHOOSE d \in {t.remaining : t \in timers} :
                      \A t \in timers : d <= t.remaining
           d == Min(TickMs, due)
       IN  /\ timers' = {[t EXCEPT !.remaining = @ - d] : t \in timers}
           /\ elapsed' = Min(elapsed + d, ElapsedCap)
    /\ UNCHANGED <<pageVars, asset, includeBot, coinsUSD, coinsTHB, selected,
                   rawPreview, cleanPreview, meta, loadingPreview, errorMsg,
                   abortRef, prevPreviewConfigRef, inputs, lastChange, issued,
                   settersAfterUnmount>>
    /\ UNCHANGED <<appVars, watchVars, offPageVars>>

\* the unmount cleanups: abortRef.current?.abort() and clearTimeout(tmr)
UnmountReport ==
    /\ ReportMounted
    /\ mounted' = FALSE
    /\ requests' = abort(requests, abortRef)
    /\ timers' = clearTimeout(timers)
    /\ UNCHANGED <<view, file, filesChosen, previewReqRef, asset, includeBot,
                   coinsUSD, coinsTHB, selected, rawPreview, cleanPreview, meta,
                   loadingPreview, errorMsg, abortRef, prevPreviewConfigRef>>
    /\ UNCHANGED <<appVars, observerVars, watchVars, offPageVars>>

\* ---- the continuation of callPreview after its awaits.  An outcome is
\* the setters the continuation calls and the values they are given.
Untouched ==
    [ setters |-> {}, meta |-> meta, coinsUSD |-> coinsUSD,
      coinsTHB |-> coinsTHB, rawPreview |-> rawPreview,
      cleanPreview |-> cleanPreview, errorMsg |-> errorMsg,
      loadingPreview |-> loadingPreview ]

FullPayload(k, coins) ==
    [meta |-> k, USD |-> coins.USD, THB |-> coins.THB, rawPreview |-> k, cleanPreview |-> k]
\* res.json().catch(() => ({})): every field falls back to its default
EmptyPayload ==
    [ meta |-> EmptyPreview, USD |-> <<>>, THB |-> <<>>,
      rawPreview |-> EmptyPreview, cleanPreview |-> EmptyPreview ]

\* the fault in which a response fills meta only where there is none
TryApplyKeepingMeta(k, payload) ==
    IF ~IsLatest(k) THEN Untouched
    ELSE [ Untouched EXCEPT
             !.setters = {"setMeta", "setCoinsUSD", "setCoinsTHB",
                          "setRawPreview", "setCleanPreview"},
             !.meta = IF meta = EmptyPreview THEN payload.meta ELSE meta,
             !.coinsUSD = payload.USD,
             !.coinsTHB = payload.THB,
             !.rawPreview = payload.rawPreview,
             !.cleanPreview = payload.cleanPreview ]

\* the try block after `if (!res.ok) throw`
TryApply(k, payload) ==
    IF ~IsLatest(k) THEN Untouched
    ELSE [ Untouched EXCEPT
             !.setters = {"setMeta", "setCoinsUSD", "setCoinsTHB",
                          "setRawPreview", "setCleanPreview"},
             !.meta = payload.meta,
             !.coinsUSD = IF areSameStringArray(coinsUSD, payload.USD)
                          THEN coinsUSD ELSE payload.USD,
             !.coinsTHB = IF areSameStringArray(coinsTHB, payload.THB)
                          THEN coinsTHB ELSE payload.THB,
             !.rawPreview = payload.rawPreview,
             !.cleanPreview = payload.cleanPreview ]

\* the catch block
Catch(k, isAbortError) ==
    IF isAbortError \/ requests[k].aborted THEN Untouched
    ELSE IF ~IsLatest(k) THEN Untouched
    ELSE [Untouched EXCEPT !.setters = {"setErrorMsg"}, !.errorMsg = k]

\* the fault in which the finally block leaves the flag alone
FinallyKeepsLoading(k, o) == o

\* the finally block
Finally(k, o) ==
    IF IsLatest(k)
    THEN [o EXCEPT !.setters = @ \cup {"setLoadingPreview"}, !.loadingPreview = FALSE]
    ELSE o

\* the setters take effect on a mounted page, with the render and the
\* effects they cause; on an unmounted page they are only recorded
Commit(o) ==
    IF mounted
    THEN /\ meta' = o.meta
         /\ coinsUSD' = o.coinsUSD /\ coinsTHB' = o.coinsTHB
         /\ rawPreview' = o.rawPreview /\ cleanPreview' = o.cleanPreview
         /\ errorMsg' = o.errorMsg
         /\ loadingPreview' = o.loadingPreview
         /\ IF AvailableCoins(asset, o.coinsUSD, o.coinsTHB) # availableCoins
            THEN PreviewEffect(file, asset, includeBot, selected,
                               AvailableCoins(asset, o.coinsUSD, o.coinsTHB))
            ELSE UNCHANGED <<timers, prevPreviewConfigRef>>
         /\ IF o.coinsUSD # coinsUSD \/ o.coinsTHB # coinsTHB
            THEN WatchlistEffect(file, o.coinsUSD, o.coinsTHB)
            ELSE UNCHANGED <<watchlists, watchlistWrites, recomputed>>
         /\ UNCHANGED settersAfterUnmount
    ELSE /\ settersAfterUnmount' = settersAfterUnmount \cup o.setters
         /\ UNCHANGED <<meta, coinsUSD, coinsTHB, rawPreview, cleanPreview,
                        errorMsg, loadingPreview, timers, prevPreviewConfigRef,
                        watchlists, watchlistWrites, recomputed>>

ReportFrame ==
    /\ UNCHANGED <<view, mounted, file, filesChosen, previewReqRef, asset,
                   includeBot, selected, abortRef, inputs, elapsed, lastChange,
                   issued, watchlistOnly>>
    /\ UNCHANGED <<appVars, offPageVars>>

\* await fetch(...) settles: rejected by the abort, rejected by the
\* network, or resolved with the response headers
FetchSettles(k) ==
    /\ view = "report"
    /\ k \in DOMAIN requests /\ requests[k].phase = "fetch"
    /\ \/ /\ requests[k].aborted
          /\ Commit(Finally(k, Catch(k, TRUE)))
          /\ requests' = Drop(requests, k)
       \/ /\ ~requests[k].aborted
          /\ Commit(Finally(k, Catch(k, FALSE)))
          /\ requests' = Drop(requests, k)
       \/ /\ ~requests[k].aborted
          /\ \E ok \in BOOLEAN :
                requests' = [requests EXCEPT ![k].phase = "body", ![k].ok = ok]
          /\ UNCHANGED <<meta, coinsUSD, coinsTHB, rawPreview, cleanPreview,
                         errorMsg, loadingPreview, timers, prevPreviewConfigRef,
                         settersAfterUnmount, watchlists, watchlistWrites,
                         recomputed>>
    /\ ReportFrame

\* await res.json().catch(() => ({})) settles, and the rest runs
BodySettles(k) ==
    /\ view = "report"
    /\ k \in DOMAIN requests /\ requests[k].phase = "body"
    /\ \E payload \in {EmptyPayload} \cup
                      (IF requests[k].aborted THEN {}
                       ELSE {FullPayload(k, c) : c \in CoinPayloads}) :
          IF requests[k].ok
          THEN Commit(Finally(k, TryApply(k, payload)))
          ELSE Commit(Finally(k, Catch(k, FALSE)))
    /\ requests' = Drop(requests, k)
    /\ ReportFrame

-----------------------------------------------------------------------------
(***************************************************************************)
(* App (the ETL page): the preview effect on [file, i18n.language].        *)
(***************************************************************************)
Langs == {"en", "th"}
AppMounted == view = "etl" /\ mounted

\* the effect's cleanup (ctrl.abort()) and then its body for the new render
AppPreviewEffect(f, l) ==
    IF f = NoFile
    THEN /\ requests' = abort(requests, ctrl)
         /\ previewData' = NoPreviewData
         /\ ctrl' = NoRequest
         /\ UNCHANGED <<previewReqRef, previewLoading>>
    ELSE LET requestId == previewReqRef + 1
         IN  /\ requestId <= MaxRequests
             /\ previewReqRef' = requestId
             /\ requests' = Put(abort(requests, ctrl), requestId,
                                [ file |-> f, lang |-> l, aborted |-> FALSE,
                                  phase |-> "fetch", ok |-> FALSE ])
             /\ ctrl' = requestId
             /\ previewLoading' = TRUE

AppFrame ==
    /\ inputs < MaxInputs
    /\ inputs' = inputs + 1
    /\ UNCHANGED <<view, mounted, settersAfterUnmount>>
    /\ UNCHANGED <<reportVars, watchVars, elapsed, lastChange, issued, offPageVars>>

\* onDrop: setFile(f); setOverrideErrors(false); setPreviewData(null); the
\* effect runs when file changed
onDrop(f) ==
    /\ AppMounted
    /\ \/ f = NoFile
       \/ f = filesChosen + 1 /\ f <= MaxFiles
    /\ file' = f
    /\ filesChosen' = IF f = NoFile THEN filesChosen ELSE f
    /\ IF f # file
       THEN AppPreviewEffect(f, lang) /\ (f # NoFile => previewData' = NoPreviewData)
       ELSE /\ previewData' = NoPreviewData
            /\ UNCHANGED <<previewReqRef, requests, previewLoading, ctrl>>
    /\ overrideErrors' = FALSE
    /\ UNCHANGED lang
    /\ AppFrame

\* onReset: setFile(null); setPreviewData(null); setOverrideErrors(false)
onReset ==
    /\ AppMounted
    /\ file' = NoFile
    /\ IF file # NoFile
       THEN AppPreviewEffect(NoFile, lang)
       ELSE /\ previewData' = NoPreviewData
            /\ UNCHANGED <<previewReqRef, requests, previewLoading, ctrl>>
    /\ overrideErrors' = FALSE
    /\ UNCHANGED <<filesChosen, lang>>
    /\ AppFrame

\* the language toggle: i18n.language changes and App renders again
changeLanguage(l) ==
    /\ AppMounted
    /\ l \in Langs /\ l # lang
    /\ lang' = l
    /\ IF file = NoFile
       THEN /\ requests' = abort(requests, ctrl)
            /\ previewData' = NoPreviewData
            /\ ctrl' = NoRequest
            /\ UNCHANGED <<previewReqRef, previewLoading>>
       ELSE /\ AppPreviewEffect(file, l)
            /\ UNCHANGED previewData
    /\ UNCHANGED <<file, filesChosen, overrideErrors>>
    /\ AppFrame

UnmountApp ==
    /\ AppMounted
    /\ mounted' = FALSE
    /\ requests' = abort(requests, ctrl)
    /\ UNCHANGED <<view, file, filesChosen, previewReqRef>>
    /\ UNCHANGED <<appVars, reportVars, observerVars, watchVars, offPageVars>>

\* validation.error_count of the server's preview of a file: the first
\* file of a behaviour has errors, the later ones have none
ErrorCountOf(f) == IF f = 1 THEN 1 ELSE 0

\* ---- the continuation of the async function of the effect
AppUntouched ==
    [setters |-> {}, previewData |-> previewData, previewLoading |-> previewLoading]

\* after `await res.json()`
AppTryApply(k) ==
    IF ~IsLatest(k) THEN AppUntouched
    ELSE [ AppUntouched EXCEPT !.setters = {"setPreviewData"},
                               !.previewData = [kind |-> "payload", req |-> k,
                                                error_count |-> ErrorCountOf(requests[k].file)] ]

\* the fault in which a cancellation is treated as a failure
AppCatchAlways(k, isAbortError) ==
    IF ~IsLatest(k) THEN AppUntouched
    ELSE [ AppUntouched EXCEPT !.setters = {"setPreviewData"},
                               !.previewData = [kind |-> "synthetic", req |-> k,
                                                error_count |-> 1] ]

\* the catch block: the synthetic one-error payload
AppCatch(k, isAbortError) ==
    IF isAbortError \/ requests[k].aborted THEN AppUntouched
    ELSE IF ~IsLatest(k) THEN AppUntouched
    ELSE [ AppUntouched EXCEPT !.setters = {"setPreviewData"},
                               !.previewData = [kind |-> "synthetic", req |-> k,
                                                error_count |-> 1] ]

AppFinally(k, o) ==
    IF IsLatest(k)
    THEN [o EXCEPT !.setters = @ \cup {"setPreviewLoading"}, !.previewLoading = FALSE]
    ELSE o

AppCommit(o) ==
    IF mounted
    THEN /\ previewData' = o.previewData
         /\ previewLoading' = o.previewLoading
         /\ UNCHANGED settersAfterUnmount
    ELSE /\ settersAfterUnmount' = settersAfterUnmount \cup o.setters
         /\ UNCHANGED <<previewData, previewLoading>>

AppSettleFrame ==
    /\ UNCHANGED <<view, mounted, file, filesChosen, previewReqRef, lang, ctrl,
                   overrideErrors>>
    /\ UNCHANGED <<reportVars, watchVars, inputs, elapsed, lastChange, issued, offPageVars>>

AppFetchSettles(k) ==
    /\ view = "etl"
    /\ k \in DOMAIN requests /\ requests[k].phase = "fetch"
    /\ \/ /\ requests[k].aborted
          /\ AppCommit(AppFinally(k, AppCatch(k, TRUE)))
          /\ requests' = Drop(requests, k)
       \/ /\ ~requests[k].aborted
          /\ AppCommit(AppFinally(k, AppCatch(k, FALSE)))
          /\ requests' = Drop(requests, k)
       \/ /\ ~requests[k].aborted
          /\ \E ok \in BOOLEAN :
                requests' = [requests EXCEPT ![k].phase = "body", ![k].ok = ok]
          /\ UNCHANGED <<previewData, previewLoading, settersAfterUnmount>>
    /\ AppSettleFrame

\* await res.text() (not ok) or await res.json() (ok) settles
AppBodySettles(k) ==
    /\ view = "etl"
    /\ k \in DOMAIN requests /\ requests[k].phase = "body"
    /\ \/ /\ requests[k].aborted
          /\ AppCommit(AppFinally(k, AppCatch(k, TRUE)))
       \/ /\ ~requests[k].aborted /\ requests[k].ok
          /\ AppCommit(AppFinally(k, AppTryApply(k)))
       \/ /\ ~requests[k].aborted
          /\ AppCommit(AppFinally(k, AppCatch(k, FALSE)))
    /\ requests' = Drop(requests, k)
    /\ AppSettleFrame

-----------------------------------------------------------------------------
(***************************************************************************)
(* The pages: Root renders one of them.                                    *)
(***************************************************************************)
Init ==
    /\ RootUnused
    /\ view \in {"report", "etl"}
    /\ mounted = TRUE
    /\ file = NoFile /\ filesChosen = 0
    /\ previewReqRef = 0 /\ requests = <<>>
    /\ ReportUnused /\ AppUnused /\ ObserversUnused /\ FnUnused /\ AuthUnused
    /\ ThemeUnused /\ LangUnused /\ DownloadUnused
    \* a profile without stored watchlists; the persist effects have run
    \* once at mount
    /\ watchlists = NoWatchlists /\ watchlistOnly = FALSE
    /\ watchlistWrites = (IF view = "report" THEN 1 ELSE 0)
    /\ recomputed = "none"

Next ==
    \/ \E f \in 0..MaxFiles : setFileFromInput(f)
    \/ \E a \in {"USD", "THB"} : selectAsset(a)
    \/ toggleIncludeBot
    \/ \E c \in {BTC, ETH} : toggleCoin(c)
    \/ selectAll
    \/ clearAll
    \/ \E b \in BOOLEAN : setWatchlistOnly(b)
    \/ resetAll
    \/ \E t \in timers : TimerFires(t)
    \/ Tick
    \/ UnmountReport
    \/ \E k \in 1..MaxRequests : FetchSettles(k)
    \/ \E k \in 1..MaxRequests : BodySettles(k)
    \/ \E f \in 0..MaxFiles : onDrop(f)
    \/ onReset
    \/ \E l \in Langs : changeLanguage(l)
    \/ UnmountApp
    \/ \E k \in 1..MaxRequests : AppFetchSettles(k)
    \/ \E k \in 1..MaxRequests : AppBodySettles(k)

Spec == Init /\ [][Next]_vars

-----------------------------------------------------------------------------
(***************************************************************************)
(* normalizeCoinList applied to every bounded input, then to its own       *)
(* output.                                                                 *)
(***************************************************************************)
InitNormalize ==
    /\ RootUnused
    /\ PageUnused /\ ReportUnused /\ AppUnused /\ ObserversUnused /\ WatchUnused
    /\ AuthUnused /\ ThemeUnused /\ LangUnused /\ DownloadUnused
    /\ fnPc = "input"
    /\ fnItems \in SeqsUpTo(RawItems, MaxLen) \cup {Undefined}
    /\ fnPrev = <<>> /\ fnUsd = <<>> /\ fnThb = <<>>
    /\ fnOut = <<>> /\ fnOut2 = <<>>

CallNormalize ==
    /\ fnPc = "input"
    /\ fnOut' = normalizeCoinList(fnItems)
    /\ fnPc' = "once"
    /\ UNCHANGED <<fnItems, fnPrev, fnUsd, fnThb, fnOut2>>
    /\ UNCHANGED offFnVars

CallNormalizeAgain ==
    /\ fnPc = "once"
    /\ fnOut2' = normalizeCoinList(fnOut)
    /\ fnPc' = "twice"
    /\ UNCHANGED <<fnItems, fnPrev, fnUsd, fnThb, fnOut>>
    /\ UNCHANGED offFnVars

NextNormalize == CallNormalize \/ CallNormalizeAgain

SpecNormalize == InitNormalize /\ [][NextNormalize]_vars

(***************************************************************************)
(* reconcileWatchlist applied to every bounded input, then to its own      *)
(* output with the same coin lists.                                        *)
(***************************************************************************)
InitReconcile ==
    /\ RootUnused
    /\ PageUnused /\ ReportUnused /\ AppUnused /\ ObserversUnused /\ WatchUnused
    /\ AuthUnused /\ ThemeUnused /\ LangUnused /\ DownloadUnused
    /\ fnPc = "input"
    /\ fnPrev \in StoredLists
    /\ fnItems \in SeqsUpTo(AvailItems, MaxLen) \cup {ManyCoins}
    /\ fnUsd \in Universes
    /\ fnThb \in Universes
    /\ fnOut = <<>> /\ fnOut2 = <<>>

CallReconcile ==
    /\ fnPc = "input"
    /\ fnOut' = reconcileWatchlist(fnPrev, fnItems, fnUsd, fnThb)
    /\ fnPc' = "once"
    /\ UNCHANGED <<fnItems, fnPrev, fnUsd, fnThb, fnOut2>>
    /\ UNCHANGED offFnVars

CallReconcileAgain ==
    /\ fnPc = "once"
    /\ fnOut2' = reconcileWatchlist(fnOut, fnItems, fnUsd, fnThb)
    /\ fnPc' = "twice"
    /\ UNCHANGED <<fnItems, fnPrev, fnUsd, fnThb, fnOut>>
    /\ UNCHANGED offFnVars

NextReconcile == CallReconcile \/ CallReconcileAgain

SpecReconcile == InitReconcile /\ [][NextReconcile]_vars

-----------------------------------------------------------------------------
(***************************************************************************)
(* AuthBar and the token store.  A setter, the render it causes and the    *)
(* effects of that render are one step; a response and a storage event of  *)
(* another tab arrive in steps of their own.  localStorage either denies   *)
(* every access (storageDenied) or works, and then setItem alone may throw *)
(* (quota).                                                                *)
(***************************************************************************)
MaxAuthRequests == 3     \* session checks and logins started in one behaviour
MaxEvents == 1           \* storage events waiting for a tab

TOKEN_KEY == "eglc_auth_token"
OtherKey == "theme"
Tokens == {"T1", "T2"}
\* the user object that /api/auth/me and /api/auth/login return for a token
UserOf(tok) == tok

readStoredToken == IF storageDenied THEN NoToken ELSE storedToken

\* the fault in which the storage keeps the item whatever is written
StoredAfterKept(tok, quota) == storedToken

\* what localStorage holds after the try block of writeStoredToken
StoredAfter(tok, quota) ==
    IF storageDenied THEN storedToken
    ELSE IF tok # NoToken THEN (IF quota THEN storedToken ELSE tok)
    ELSE NoToken

\* the fault in which no storage event is sent
noStorageEvents(q, old, new) == q

\* the storage event the other tab gets when the item changed
StorageEvents(q, old, new) ==
    IF old # new THEN Append(q, [key |-> TOKEN_KEY, newValue |-> new]) ELSE q

\* readStoredToken() in onAuthSync, called by the dispatchEvent that ends
\* writeStoredToken
ReadAfter(tok, quota) ==
    IF storageDenied THEN NoToken ELSE StoredAfter(tok, quota)

writeStoredToken(tok, quota) ==
    /\ storedToken' = StoredAfter(tok, quota)
    /\ toOtherTab' = StorageEvents(toOtherTab, storedToken, StoredAfter(tok, quota))
    /\ written' = tok

\* a step without writeStoredToken
NoWrite ==
    /\ written' = NotWritten
    /\ UNCHANGED <<storedToken, toOtherTab>>

\* the fault in which the cleanup of the session effect leaves alive set
keepAlive(cks) == cks

\* cleanup of the session effect: alive = false
cleanupChecks(cks) == [k \in DOMAIN cks |-> [cks[k] EXCEPT !.alive = FALSE]]

\* the render after a batch of setters that leaves token = tok, user = usr
\* and checkingSession = cs, and the session effect on [token]
Render(tok, usr, cs, cks) ==
    /\ token' = tok
    /\ IF tok = token
       THEN /\ user' = usr /\ checkingSession' = cs /\ checks' = cks
            /\ UNCHANGED started
       ELSE IF tok = NoToken
       THEN /\ user' = NoUser /\ checkingSession' = cs
            /\ checks' = cleanupChecks(cks)
            /\ UNCHANGED started
       ELSE /\ started < MaxAuthRequests
            /\ user' = usr /\ checkingSession' = TRUE
            /\ checks' = Put(cleanupChecks(cks), started + 1,
                             [token |-> tok, alive |-> TRUE])
            /\ started' = started + 1

AuthFrame == UNCHANGED <<offAuthVars, storageDenied, inputs>>

\* logins, logouts and what happens around the AuthBar (other tabs, page
\* switches) are counted
AuthInput ==
    /\ inputs < MaxInputs
    /\ inputs' = inputs + 1
    /\ UNCHANGED <<offAuthVars, storageDenied>>

\* requestMe(token) settles and the then / catch / finally handlers run
CheckSettles(k, outcome) ==
    /\ k \in DOMAIN checks
    /\ LET c == checks[k]
           rest == Drop(checks, k)
       IN  /\ lastCheck' = (IF c.alive
                             THEN [token |-> c.token, outcome |-> outcome, ignored |-> FALSE]
                             ELSE [lastCheck EXCEPT !.ignored = TRUE])
           /\ IF ~c.alive
              THEN /\ checks' = rest
                   /\ NoWrite
                   /\ UNCHANGED <<token, user, checkingSession, started>>
              ELSE IF outcome = "user"
              THEN /\ Render(token, UserOf(c.token), FALSE, rest)
                   /\ NoWrite
              ELSE IF outcome = "nouser"
              THEN /\ Render(token, NoUser, FALSE, rest)
                   /\ NoWrite
              ELSE /\ writeStoredToken(NoToken, FALSE)
                   /\ Render(ReadAfter(NoToken, FALSE), NoUser, FALSE, rest)
    /\ UNCHANGED <<authMounted, mode, submitting, logins, closeTimerRef,
                   otherToken, toThisTab>>
    /\ AuthFrame

onLogout ==
    /\ authMounted /\ user # NoUser
    /\ writeStoredToken(NoToken, FALSE)
    /\ Render(NoToken, NoUser, checkingSession, checks)
    /\ UNCHANGED <<authMounted, mode, submitting, logins, closeTimerRef,
                   otherToken, toThisTab, lastCheck>>
    /\ AuthInput

\* openLogin / openSignup: clearCloseTimer(); setMode(m)
openModal(m) ==
    /\ authMounted /\ user = NoUser
    /\ mode' = m
    /\ closeTimerRef' = FALSE
    /\ UNCHANGED <<storedToken, authMounted, token, user, checkingSession,
                   checks, submitting, logins, otherToken, toThisTab,
                   toOtherTab, started, lastCheck>>
    /\ written' = NotWritten
    /\ AuthFrame

\* closeModal: setSubmitting(false) and the timer that ends the transition
closeModal ==
    /\ authMounted /\ mode # "none"
    /\ submitting' = FALSE
    /\ closeTimerRef' = TRUE
    /\ UNCHANGED <<storedToken, authMounted, token, user, checkingSession,
                   checks, mode, logins, otherToken, toThisTab, toOtherTab,
                   started, lastCheck>>
    /\ written' = NotWritten
    /\ AuthFrame

\* the callback of the timer of closeModal: setMode(null)
CloseTimerFires ==
    /\ authMounted /\ closeTimerRef
    /\ mode' = "none"
    /\ closeTimerRef' = FALSE
    /\ UNCHANGED <<storedToken, authMounted, token, user, checkingSession,
                   checks, submitting, logins, otherToken, toThisTab,
                   toOtherTab, started, lastCheck>>
    /\ written' = NotWritten
    /\ AuthFrame

\* onSubmit up to its first await
onSubmit ==
    /\ authMounted
    /\ ~(submitting \/ mode = "none")
    /\ started < MaxAuthRequests
    /\ started' = started + 1
    /\ submitting' = TRUE
    /\ logins' = Put(logins, started + 1, [own |-> TRUE])
    /\ UNCHANGED <<storedToken, authMounted, token, user, checkingSession,
                   checks, mode, closeTimerRef, otherToken, toThisTab,
                   toOtherTab, lastCheck>>
    /\ written' = NotWritten
    /\ AuthInput

\* the rest of onSubmit: the request failed or the payload is invalid
\* (nextToken = NoToken), or it carries a token and a user
\* (logins[k].own: the AuthBar that sent the request is still mounted; the
\* setters of an unmounted one do nothing, its writeStoredToken still runs
\* and the AuthBar mounted by then hears the event)
LoginSettles(k, nextToken, quota) ==
    /\ k \in DOMAIN logins
    /\ logins' = Drop(logins, k)
    /\ IF nextToken = NoToken
       THEN /\ submitting' = (IF logins[k].own THEN FALSE ELSE submitting)
            /\ NoWrite
            /\ UNCHANGED <<token, user, checkingSession, checks, started,
                           closeTimerRef>>
       ELSE /\ writeStoredToken(nextToken, quota)
            /\ IF logins[k].own
               THEN /\ Render(nextToken, UserOf(nextToken), checkingSession, checks)
                    /\ submitting' = FALSE
                    /\ closeTimerRef' = TRUE
               ELSE IF authMounted
               THEN /\ Render(ReadAfter(nextToken, quota), user, checkingSession, checks)
                    /\ UNCHANGED <<submitting, closeTimerRef>>
               ELSE UNCHANGED <<token, user, checkingSession, checks, started,
                                submitting, closeTimerRef>>
    /\ UNCHANGED <<authMounted, mode, otherToken, toThisTab, lastCheck>>
    /\ AuthFrame

\* the AuthBar of another tab logs in or out: the item changes and this
\* tab gets a storage event
OtherTabWrites(v) ==
    /\ ~storageDenied
    /\ v # storedToken
    /\ Len(toThisTab) < MaxEvents
    /\ storedToken' = v
    /\ otherToken' = v
    /\ toThisTab' = Append(toThisTab, [key |-> TOKEN_KEY, newValue |-> v])
    /\ UNCHANGED <<authMounted, token, user, checkingSession, checks, mode,
                   submitting, logins, closeTimerRef, toOtherTab, started,
                   lastCheck>>
    /\ written' = NotWritten
    /\ AuthInput

\* another key of the storage changes in another tab
OtherKeyWritten ==
    /\ ~storageDenied
    /\ Len(toThisTab) < MaxEvents
    /\ toThisTab' = Append(toThisTab, [key |-> OtherKey, newValue |-> "dark"])
    /\ UNCHANGED <<storedToken, authMounted, token, user, checkingSession,
                   checks, mode, submitting, logins, closeTimerRef, otherToken,
                   toOtherTab, started, lastCheck>>
    /\ written' = NotWritten
    /\ AuthInput

\* onStorage(e) of this tab; nothing listens after the unmount
onStorage ==
    /\ toThisTab # <<>>
    /\ LET e == Head(toThisTab)
       IN  IF authMounted /\ e.key = TOKEN_KEY
           THEN Render(e.newValue, user, checkingSession, checks)
           ELSE UNCHANGED <<token, user, checkingSession, checks, started>>
    /\ toThisTab' = Tail(toThisTab)
    /\ UNCHANGED <<storedToken, authMounted, mode, submitting, logins,
                   closeTimerRef, otherToken, toOtherTab, lastCheck>>
    /\ written' = NotWritten
    /\ AuthFrame

\* onStorage(e) of the AuthBar of the other tab
OtherTabOnStorage ==
    /\ toOtherTab # <<>>
    /\ otherToken' = (IF Head(toOtherTab).key = TOKEN_KEY
                      THEN Head(toOtherTab).newValue ELSE otherToken)
    /\ toOtherTab' = Tail(toOtherTab)
    /\ UNCHANGED <<storedToken, authMounted, token, user, checkingSession,
                   checks, mode, submitting, logins, closeTimerRef, toThisTab,
                   started, lastCheck>>
    /\ written' = NotWritten
    /\ AuthFrame

\* the page that holds the AuthBar goes away: the cleanups of its effects
UnmountAuthBar ==
    /\ authMounted
    /\ authMounted' = FALSE
    /\ checks' = cleanupChecks(checks)
    /\ logins' = [k \in DOMAIN logins |-> [own |-> FALSE]]
    /\ closeTimerRef' = FALSE
    /\ UNCHANGED <<storedToken, token, user, checkingSession, mode,
                   submitting, otherToken, toThisTab, toOtherTab,
                   started, lastCheck>>
    /\ written' = NotWritten
    /\ AuthInput

\* the initial state of an AuthBar and the first run of its session effect
Mounted(n) ==
    /\ authMounted' = TRUE
    /\ token' = readStoredToken
    /\ user' = NoUser
    /\ mode' = "none" /\ submitting' = FALSE /\ closeTimerRef' = FALSE
    /\ checkingSession' = (readStoredToken # NoToken)
    /\ started' = (IF readStoredToken # NoToken THEN n + 1 ELSE n)

MountAuthBar ==
    /\ ~authMounted
    /\ readStoredToken # NoToken => started < MaxAuthRequests
    /\ Mounted(started)
    /\ checks' = (IF readStoredToken # NoToken
                  THEN Put(checks, started + 1,
                           [token |-> readStoredToken, alive |-> TRUE])
                  ELSE checks)
    /\ UNCHANGED <<storedToken, logins, otherToken, toThisTab, toOtherTab,
                   lastCheck>>
    /\ written' = NotWritten
    /\ AuthInput

InitAuth ==
    /\ RootUnused
    /\ PageUnused /\ ReportUnused /\ AppUnused /\ ObserversUnused /\ WatchUnused
    /\ FnUnused /\ ThemeUnused /\ LangUnused /\ DownloadUnused
    /\ storageDenied \in BOOLEAN
    /\ storedToken \in (IF storageDenied THEN {NoToken} ELSE {NoToken} \cup Tokens)
    /\ otherToken = storedToken
    /\ authMounted = TRUE
    /\ token = readStoredToken /\ user = NoUser
    /\ mode = "none" /\ submitting = FALSE /\ closeTimerRef = FALSE
    /\ checkingSession = (token # NoToken)
    /\ started = (IF token # NoToken THEN 1 ELSE 0)
    /\ checks = (IF token # NoToken
                 THEN Put(<<>>, 1, [token |-> token, alive |-> TRUE])
                 ELSE <<>>)
    /\ logins = <<>>
    /\ toThisTab = <<>> /\ toOtherTab = <<>>
    /\ written = NotWritten /\ lastCheck = NoCheck

NextAuth ==
    \/ \E k \in 1..MaxAuthRequests, o \in {"user", "nouser", "fail"} : CheckSettles(k, o)
    \/ onLogout
    \/ \E m \in {"login", "signup"} : openModal(m)
    \/ closeModal
    \/ CloseTimerFires
    \/ onSubmit
    \/ \E k \in 1..MaxAuthRequests, t \in {NoToken} \cup Tokens, q \in BOOLEAN :
          LoginSettles(k, t, q)
    \/ \E v \in {NoToken} \cup Tokens : OtherTabWrites(v)
    \/ OtherKeyWritten
    \/ onStorage
    \/ OtherTabOnStorage
    \/ UnmountAuthBar
    \/ MountAuthBar

SpecAuth == InitAuth /\ [][NextAuth]_vars

-----------------------------------------------------------------------------
(***************************************************************************)
(* The theme: readTheme and writeTheme, ModeToggle (on the report page)    *)
(* and the theme effect of App (on the ETL page).                          *)
(***************************************************************************)
ValidTheme(v) == v = "dark" \/ v = "light"

\* the fault in which the storage keys are asked before the roots
readThemeStorageFirst(dt, dc, store) ==
    LET keys == [i \in DOMAIN THEME_KEYS |-> store[THEME_KEYS[i]]]
        attrs == [i \in DOMAIN Roots |-> dt[Roots[i]]]
    IN  IF ~themeDenied /\ SelectSeq(keys, ValidTheme) # <<>>
        THEN Head(SelectSeq(keys, ValidTheme))
        ELSE IF SelectSeq(attrs, ValidTheme) # <<>>
        THEN Head(SelectSeq(attrs, ValidTheme))
        ELSE IF dc # {} \/ prefersDark THEN "dark" ELSE "light"

\* readTheme on the roots' data-theme attributes dt, the roots with class
\* dark dc, and the storage items
readThemeOf(dt, dc, store) ==
    LET attrs == [i \in DOMAIN Roots |-> dt[Roots[i]]]
        keys == [i \in DOMAIN THEME_KEYS |-> store[THEME_KEYS[i]]]
    IN  IF SelectSeq(attrs, ValidTheme) # <<>>
        THEN Head(SelectSeq(attrs, ValidTheme))
        ELSE IF ~themeDenied /\ SelectSeq(keys, ValidTheme) # <<>>
        THEN Head(SelectSeq(keys, ValidTheme))
        ELSE IF dc # {} THEN "dark"
        ELSE IF prefersDark THEN "dark"
        ELSE "light"

readTheme == readThemeOf(dataTheme, darkClass, themeStore)

\* the setItem loop over the keys: the first call throws when the storage
\* denies access, and the call for key number failAt throws on a full
\* storage (failAt = 0: none does)
StoreAfter(v, failAt) ==
    IF themeDenied THEN themeStore
    ELSE [k \in KeySetOfTheme |->
            IF \E i \in DOMAIN THEME_KEYS :
                  THEME_KEYS[i] = k /\ (failAt = 0 \/ i < failAt)
            THEN v ELSE themeStore[k]]
\* the setItem calls of the loop that returned
SetItemCalls(failAt) ==
    IF themeDenied THEN 0 ELSE IF failAt = 0 THEN Len(THEME_KEYS) ELSE failAt - 1

\* the roots that the theme effect of App writes
AppTargets == {"html", "body", "root"}

\* what a step has done to the roots and the storage, with the events it
\* dispatched and the setItem calls that returned
Current ==
    [dataTheme |-> dataTheme, darkClass |-> darkClass, lightClass |-> lightClass,
     colorScheme |-> colorScheme, themeStore |-> themeStore,
     dispatched |-> 0, themeWrites |-> 0]

\* the class, attribute and color-scheme updates on the roots in `targets`,
\* the setItem loop and the dispatch of eglc-theme-change
ApplyToRoots(v, targets, failAt) ==
    [dataTheme |-> [r \in RootSet |-> IF r \in targets THEN v ELSE dataTheme[r]],
     darkClass |-> (IF v = "dark" THEN darkClass \cup targets ELSE darkClass \ targets),
     lightClass |-> (IF v = "dark" THEN lightClass \ targets ELSE lightClass \cup targets),
     colorScheme |-> v,
     themeStore |-> StoreAfter(v, failAt),
     dispatched |-> 1,
     themeWrites |-> SetItemCalls(failAt)]

writeTheme(v, failAt) == ApplyToRoots(v, RootSet, failAt)

\* the theme effect of App on [theme]
AppThemeEffect(v, failAt) == ApplyToRoots(v, AppTargets, failAt)

\* the step leaves the roots and the storage as w says
Leave(w) ==
    /\ dataTheme' = w.dataTheme
    /\ darkClass' = w.darkClass
    /\ lightClass' = w.lightClass
    /\ colorScheme' = w.colorScheme
    /\ themeStore' = w.themeStore
    /\ dispatched' = w.dispatched
    /\ themeWrites' = w.themeWrites

\* the fault in which the listeners write the theme they have read: one
\* more pass over the roots and the keys, one more event
onSyncWrites(w) ==
    LET next == readThemeOf(w.dataTheme, w.darkClass, w.themeStore)
        again == writeTheme(next, 0)
    IN  /\ themeMode' = next
        /\ Leave([again EXCEPT !.dispatched = w.dispatched + 1,
                               !.themeWrites = w.themeWrites + again.themeWrites])

\* onSync and the MutationObserver callback of ModeToggle, run on what the
\* step has done: setMode(prev => prev === next ? prev : next) with
\* next = readTheme()
onSync(w) ==
    /\ themeMode' = readThemeOf(w.dataTheme, w.darkClass, w.themeStore)
    /\ Leave(w)

\* the listeners exist while ModeToggle is mounted
Listeners(w) ==
    IF themePage = "report" THEN onSync(w)
    ELSE Leave(w) /\ UNCHANGED themeMode

ThemeFrame == UNCHANGED <<offThemeVars, themeDenied, prefersDark, themeOut>>

\* ModeToggle's set(next): setMode(next), writeTheme(next); its own
\* listeners then read the theme back
set(next, failAt) ==
    /\ themePage = "report"
    /\ onSync(writeTheme(next, failAt))
    /\ external' = FALSE
    /\ UNCHANGED theme
    /\ ThemeFrame /\ UNCHANGED themePage

\* a theme button of App: setTheme(next); the effect on [theme] runs when
\* the state changed
setTheme(next, failAt) ==
    /\ themePage = "etl"
    /\ next # theme
    /\ theme' = next
    /\ Leave(AppThemeEffect(next, failAt))
    /\ external' = FALSE
    /\ UNCHANGED themeMode
    /\ ThemeFrame /\ UNCHANGED themePage

\* Root shows the report page: ModeToggle mounts with useState(readTheme)
\* and its mount effect writes that mode; the listeners are registered
\* after the write
ShowReport(failAt) ==
    /\ themePage # "report"
    /\ themePage' = "report"
    /\ themeMode' = readTheme
    /\ Leave(writeTheme(readTheme, failAt))
    /\ external' = FALSE
    /\ UNCHANGED theme
    /\ ThemeFrame

\* the initial value of App's theme state
savedTheme ==
    IF ~themeDenied /\ ValidTheme(themeStore["theme"]) THEN themeStore["theme"]
    ELSE IF prefersDark THEN "dark" ELSE "light"

\* Root shows the ETL page: App mounts and its theme effect runs
ShowApp(failAt) ==
    /\ themePage # "etl"
    /\ themePage' = "etl"
    /\ theme' = savedTheme
    /\ Leave(AppThemeEffect(savedTheme, failAt))
    /\ external' = FALSE
    /\ UNCHANGED themeMode
    /\ ThemeFrame

\* another component adds the class dark to the observed root r
ExternalAddsDarkClass(r) ==
    /\ themePage # "none"
    /\ r \notin darkClass
    /\ Listeners([Current EXCEPT !.darkClass = darkClass \cup {r}])
    /\ external' = TRUE
    /\ UNCHANGED theme
    /\ ThemeFrame /\ UNCHANGED themePage

\* another component sets the data-theme attribute of the observed root r
ExternalSetsDataTheme(r, v) ==
    /\ themePage # "none"
    /\ dataTheme[r] # v
    /\ Listeners([Current EXCEPT !.dataTheme[r] = v])
    /\ external' = TRUE
    /\ UNCHANGED theme
    /\ ThemeFrame /\ UNCHANGED themePage

\* another tab writes v to the theme keys; this tab hears the storage
\* events
OtherTabWritesTheme(v) ==
    /\ themePage # "none"
    /\ ~themeDenied
    /\ \E k \in KeySetOfTheme : themeStore[k] # v
    /\ Listeners([Current EXCEPT !.themeStore = [k \in KeySetOfTheme |-> v]])
    /\ external' = TRUE
    /\ UNCHANGED theme
    /\ ThemeFrame /\ UNCHANGED themePage

FailAts == 0 .. Len(THEME_KEYS)

InitTheme ==
    /\ RootUnused
    /\ PageUnused /\ ReportUnused /\ AppUnused /\ ObserversUnused /\ WatchUnused
    /\ FnUnused /\ AuthUnused /\ LangUnused /\ DownloadUnused
    /\ dataTheme = [r \in RootSet |-> NoAttr]
    /\ darkClass = {} /\ lightClass = {} /\ colorScheme = NoAttr
    /\ themeDenied \in BOOLEAN
    /\ themeStore \in {[k \in KeySetOfTheme |-> v] : v \in {NoAttr, "dark", "light"}}
                      \cup {[k \in KeySetOfTheme |-> IF k = "vite-ui-theme" THEN "system" ELSE NoAttr]}
    /\ prefersDark \in BOOLEAN
    /\ themePage = "none" /\ themeMode = NoAttr /\ theme = NoAttr
    /\ dispatched = 0 /\ themeWrites = 0 /\ themeOut = Unread
    /\ external = FALSE

NextTheme ==
    \/ \E next \in {"dark", "light"}, failAt \in FailAts : set(next, failAt)
    \/ \E next \in {"dark", "light"}, failAt \in FailAts : setTheme(next, failAt)
    \/ \E failAt \in FailAts : ShowReport(failAt)
    \/ \E failAt \in FailAts : ShowApp(failAt)
    \/ \E r \in RootSet : ExternalAddsDarkClass(r)
    \/ \E r \in RootSet, v \in {"dark", "light"} : ExternalSetsDataTheme(r, v)
    \/ \E v \in {"dark", "light"} : OtherTabWritesTheme(v)

SpecTheme == InitTheme /\ [][NextTheme]_vars

\* ---- readTheme as a function of what it reads
CallReadTheme ==
    /\ themeOut = Unread
    /\ themeOut' = readTheme
    /\ UNCHANGED <<offThemeVars, dataTheme, darkClass, lightClass, colorScheme,
                   themeStore, themeDenied, prefersDark, themePage, themeMode,
                   theme, dispatched, themeWrites, external>>

InitReadTheme ==
    /\ RootUnused
    /\ PageUnused /\ ReportUnused /\ AppUnused /\ ObserversUnused /\ WatchUnused
    /\ FnUnused /\ AuthUnused /\ LangUnused /\ DownloadUnused
    /\ dataTheme \in {f \in [RootSet -> {NoAttr, "auto", "dark", "light"}] :
                        \A r \in RootSet \ {"html"} : f[r] # "auto"}
    /\ darkClass \in {{}, {"body"}, {"child"}, RootSet}
    /\ lightClass = {} /\ colorScheme = NoAttr
    /\ themeStore \in {f \in [KeySetOfTheme -> {NoAttr, "system", "dark", "light"}] :
                        \A k \in KeySetOfTheme \ {"theme"} : f[k] # "system"}
    /\ themeDenied \in BOOLEAN
    /\ prefersDark \in BOOLEAN
    /\ themePage = "none" /\ themeMode = NoAttr /\ theme = NoAttr
    /\ dispatched = 0 /\ themeWrites = 0 /\ themeOut = Unread
    /\ external = FALSE

NextReadTheme == CallReadTheme

SpecReadTheme == InitReadTheme /\ [][NextReadTheme]_vars

-----------------------------------------------------------------------------
(***************************************************************************)
(* The language switch of i18n.js: setAppLanguage, animateLanguageSwitch   *)
(* and the timeout that ends the transition.                               *)
(***************************************************************************)
LANG_TRANSITION_MS == 260
LangTickMs == 65         \* the longest step of time in the model
MaxSwitches == 4         \* effective switches in one behaviour
SUPPORTED == {"th", "en"}
LangTargets == {"html", "body", "root"}

\* the fault in which the pending timeout is not cleared
keepLangTimers(ts, handle) == ts

\* window.clearTimeout(langTransitionTimer)
clearLangTimeout(ts, handle) == {t \in ts : t.id # handle}

\* animateLanguageSwitch: the class is added to the targets, the pending
\* timeout is cleared and a new one is set
animateLanguageSwitch ==
    /\ langSwitching' = langSwitching \cup LangTargets
    /\ langTimers' =
          (IF langTransitionTimer # NoLangTimer
           THEN clearLangTimeout(langTimers, langTransitionTimer)
           ELSE langTimers)
          \cup {[id |-> langSwitches + 1, remaining |-> LANG_TRANSITION_MS]}
    /\ langTransitionTimer' = langSwitches + 1

\* setAppLanguage(lng): it returns at once for the language already shown;
\* i18n.changeLanguage resolves from the bundled resources, and setItem
\* may throw
setAppLanguage(lng, quota) ==
    LET next == IF lng \in SUPPORTED THEN lng ELSE "en"
    IN  /\ i18nLanguage # next
        /\ langSwitches < MaxSwitches
        /\ animateLanguageSwitch
        /\ i18nLanguage' = next
        /\ langStored' = (IF langDenied \/ quota THEN langStored ELSE next)
        /\ sinceSwitch' = 0
        /\ langSwitches' = langSwitches + 1
        /\ langRestarts' = langRestarts + (IF langTimers # {} THEN 1 ELSE 0)
        /\ UNCHANGED <<offLangVars, langDenied>>

\* the callback of the timeout
LangTimerFires(t) ==
    /\ t \in langTimers /\ t.remaining = 0
    /\ langTimers' = langTimers \ {t}
    /\ langSwitching' = langSwitching \ LangTargets
    /\ langTransitionTimer' = NoLangTimer
    /\ UNCHANGED <<offLangVars, i18nLanguage, langStored, langDenied,
                   sinceSwitch, langSwitches, langRestarts>>

\* time passes, up to the next timeout that is due
LangTick ==
    /\ langTimers # {}
    /\ \A t \in langTimers : t.remaining > 0
    /\ LET due == CHOOSE d \in {t.remaining : t \in langTimers} :
                      \A t \in langTimers : d <= t.remaining
           d == Min(LangTickMs, due)
       IN  /\ langTimers' = {[t EXCEPT !.remaining = @ - d] : t \in langTimers}
           /\ sinceSwitch' = sinceSwitch + d
    /\ UNCHANGED <<offLangVars, i18nLanguage, langStored, langDenied,
                   langSwitching, langTransitionTimer, langSwitches,
                   langRestarts>>

InitLang ==
    /\ RootUnused
    /\ PageUnused /\ ReportUnused /\ AppUnused /\ ObserversUnused /\ WatchUnused
    /\ FnUnused /\ AuthUnused /\ ThemeUnused /\ DownloadUnused
    /\ langDenied \in BOOLEAN
    /\ langStored \in {NoAttr, "th", "en"}
    /\ i18nLanguage \in SUPPORTED
    /\ langSwitching = {} /\ langTimers = {} /\ langTransitionTimer = NoLangTimer
    /\ sinceSwitch = 0 /\ langSwitches = 0 /\ langRestarts = 0

NextLang ==
    \/ \E lng \in SUPPORTED \cup {"fr"}, quota \in BOOLEAN : setAppLanguage(lng, quota)
    \/ \E t \in langTimers : LangTimerFires(t)
    \/ LangTick

SpecLang == InitLang /\ [][NextLang]_vars

-----------------------------------------------------------------------------
(***************************************************************************)
(* The name of a downloaded file.  A content-disposition header is a       *)
(* sequence of pieces: the word filename= , a double quote, or other text. *)
(***************************************************************************)
MaxHeader == 5           \* longest header given to the file-name rule
FilenameIs == "filename="
Quote == "\""
HeaderPieces == {FilenameIs, Quote, "a", ";"}
CLEAN_CSV == <<"CLEAN.csv">>
REPORT_CLEAN_XLSX == <<"REPORT_CLEAN.xlsx">>

\* the places where /filename="([^"]+)"/ matches: filename= and a quote,
\* then at least one piece that is no quote, then a quote
MatchesAt(s, i) ==
    /\ i + 3 <= Len(s)
    /\ s[i] = FilenameIs /\ s[i + 1] = Quote /\ s[i + 2] # Quote
    /\ \E k \in (i + 3) .. Len(s) : s[k] = Quote

\* the fault in which the group runs to the last quote of the header
execToLastQuote(s) ==
    IF \E i \in 1 .. Len(s) : MatchesAt(s, i)
    THEN LET i == CHOOSE i \in 1 .. Len(s) :
                     MatchesAt(s, i) /\ \A j \in 1 .. (i - 1) : ~MatchesAt(s, j)
             k == CHOOSE k \in (i + 3) .. Len(s) :
                     s[k] = Quote /\ \A j \in (k + 1) .. Len(s) : s[j] # Quote
         IN  SubSeq(s, i + 2, k - 1)
    ELSE NoName

\* group 1 of the leftmost match, NoName without a match
exec(s) ==
    IF \E i \in 1 .. Len(s) : MatchesAt(s, i)
    THEN LET i == CHOOSE i \in 1 .. Len(s) :
                     MatchesAt(s, i) /\ \A j \in 1 .. (i - 1) : ~MatchesAt(s, j)
             k == CHOOSE k \in (i + 3) .. Len(s) :
                     s[k] = Quote /\ \A j \in (i + 3) .. (k - 1) : s[j] # Quote
         IN  SubSeq(s, i + 2, k - 1)
    ELSE NoName

\* App.jsx: null for a header that is null or empty, else group 1 or null
parseFilenameFromDisposition(h) ==
    IF h = NullHeader \/ h = <<>> THEN NoName ELSE exec(h)

\* the name given to a.download in each flow
DownloadName(flow, h) ==
    IF flow = "etl"
    THEN IF parseFilenameFromDisposition(h) # NoName
         THEN parseFilenameFromDisposition(h) ELSE CLEAN_CSV
    ELSE LET dispo == IF h = NullHeader THEN <<>> ELSE h
         IN  IF exec(dispo) # NoName THEN exec(dispo) ELSE REPORT_CLEAN_XLSX

Headers == {NullHeader} \cup SeqsUpTo(HeaderPieces, MaxHeader)

CallDownloadName ==
    /\ filename = NoName
    /\ filename' = DownloadName(dlFlow, disposition)
    /\ UNCHANGED <<pageSideVars, fnVars, authVars, themeVars, langVars, rootVars,
                   loading, loadingDownload, downloads, saved, surfaced,
                   disposition, dlFlow, overrideFor>>

InitFilename ==
    /\ RootUnused
    /\ PageUnused /\ ReportUnused /\ AppUnused /\ ObserversUnused /\ WatchUnused
    /\ FnUnused /\ AuthUnused /\ ThemeUnused /\ LangUnused
    /\ loading = FALSE /\ loadingDownload = FALSE /\ downloads = <<>>
    /\ saved = NoName /\ surfaced = NoMessage /\ overrideFor = NoFile
    /\ disposition \in Headers
    /\ dlFlow \in {"etl", "report"}
    /\ filename = NoName

NextFilename == CallDownloadName

SpecFilename == InitFilename /\ [][NextFilename]_vars

-----------------------------------------------------------------------------
(***************************************************************************)
(* The downloads: App.onClean (POST /api/clean) and                        *)
(* ReportPrice.handleDownload (POST /api/report/clean).  The awaits of one *)
(* download settle in one step: nothing the page does in between changes   *)
(* what the continuation does.                                             *)
(***************************************************************************)
MaxDownloads == 2        \* download requests in flight in the model
DownloadFailed == 0 - 1  \* errorMsg holds the message of a failed download

hasErrors == previewData.error_count > 0
\* the fault in which errors never block the download
neverBlocked == FALSE
blockDownload == hasErrors /\ ~overrideErrors

\* the fault in which a pending download does not disable the action
neverPending(flag) == FALSE
\* `loading` in the guard of onClean, `loadingDownload` in the disabled
\* attribute of the report's button
Pending(flag) == flag

\* what the pages leave alone during a download
DownloadFrame ==
    /\ UNCHANGED <<pageVars, watchVars, fnVars, authVars, themeVars, langVars,
                   rootVars>>
    /\ UNCHANGED <<asset, includeBot, coinsUSD, coinsTHB, selected, rawPreview,
                   cleanPreview, meta, loadingPreview, abortRef,
                   prevPreviewConfigRef, timers>>
    /\ UNCHANGED <<lang, previewData, previewLoading, ctrl>>
    /\ UNCHANGED <<inputs, elapsed, lastChange, issued>>
    /\ UNCHANGED <<disposition, dlFlow, filename>>

\* the checkbox "download anyway", rendered while errCount > 0
setOverrideErrors(b) ==
    /\ AppMounted
    /\ hasErrors
    /\ b # overrideErrors
    /\ overrideErrors' = b
    /\ overrideFor' = (IF b THEN file ELSE overrideFor)
    /\ UNCHANGED <<errorMsg, settersAfterUnmount, loading, loadingDownload,
                   downloads, saved, surfaced>>
    /\ DownloadFrame

onClean ==
    /\ AppMounted
    /\ file # NoFile /\ ~Pending(loading)
    /\ ~blockDownload
    /\ Len(downloads) < MaxDownloads
    /\ loading' = TRUE
    /\ downloads' = Append(downloads, [flow |-> "etl", file |-> file, coins |-> <<>>])
    /\ saved' = NoName /\ surfaced' = NoMessage
    /\ UNCHANGED <<errorMsg, overrideErrors, overrideFor, settersAfterUnmount,
                   loadingDownload>>
    /\ DownloadFrame

handleDownload ==
    /\ ReportMounted
    /\ ~Pending(loadingDownload)
    /\ file # NoFile /\ Len(selected) # 0
    /\ Len(downloads) < MaxDownloads
    /\ loadingDownload' = TRUE
    /\ errorMsg' = NoError
    /\ downloads' = Append(downloads,
                       [flow |-> "report", file |-> file,
                        coins |-> orderedSelectedCoins(availableCoins, selected)])
    /\ saved' = NoName /\ surfaced' = NoMessage
    /\ UNCHANGED <<overrideErrors, overrideFor, settersAfterUnmount, loading>>
    /\ DownloadFrame

\* what the server, or the network, may answer to a download
HttpStatuses == {500}
StatusText(status) == IF status = 500 THEN "HTTP 500" ELSE "HTTP other"
ErrorBodies ==
    { [text |-> "", detail |-> ""],
      [text |-> "{\"detail\":\"bad file\"}", detail |-> "bad file"],
      [text |-> "Bad Gateway", detail |-> ""] }
Answers ==
    {[kind |-> "ok", status |-> 200, disposition |-> h, text |-> "", detail |-> ""] :
        h \in {NullHeader, <<FilenameIs, Quote, "a", Quote>>}}
    \cup {[kind |-> "error", status |-> st, disposition |-> NullHeader,
           text |-> b.text, detail |-> b.detail] :
             st \in HttpStatuses, b \in ErrorBodies}
    \cup {[kind |-> "network", status |-> 0, disposition |-> NullHeader,
           text |-> "", detail |-> ""]}

\* the message of the Error thrown for the answer
ErrorMessage(flow, answer) ==
    IF answer.kind = "network" THEN "Failed to fetch"
    ELSE IF flow = "etl"
    THEN IF answer.text # "" THEN answer.text ELSE "Clean failed"
    ELSE IF answer.detail # "" THEN answer.detail ELSE StatusText(answer.status)

\* the continuation of a download after its awaits: save the blob, or
\* surface the error (alert in App, setErrorMsg in ReportPrice); finally
\* clear the loading flag
DownloadSettles(i, answer) ==
    /\ i \in DOMAIN downloads
    /\ LET d == downloads[i]
           failed == answer.kind # "ok"
       IN  /\ downloads' = [j \in 1 .. (Len(downloads) - 1) |->
                               IF j < i THEN downloads[j] ELSE downloads[j + 1]]
           /\ saved' = (IF failed THEN NoName ELSE DownloadName(d.flow, answer.disposition))
           /\ IF d.flow = "etl"
              THEN /\ surfaced' = (IF failed THEN ErrorMessage("etl", answer) ELSE NoMessage)
                   /\ loading' = (IF mounted THEN FALSE ELSE loading)
                   /\ settersAfterUnmount' =
                         (IF mounted THEN settersAfterUnmount
                          ELSE settersAfterUnmount \cup {"setLoading"})
                   /\ UNCHANGED <<errorMsg, loadingDownload>>
              ELSE /\ surfaced' = (IF failed /\ mounted THEN ErrorMessage("report", answer)
                                   ELSE NoMessage)
                   /\ errorMsg' = (IF failed /\ mounted THEN DownloadFailed ELSE errorMsg)
                   /\ loadingDownload' = (IF mounted THEN FALSE ELSE loadingDownload)
                   /\ settersAfterUnmount' =
                         (IF mounted THEN settersAfterUnmount
                          ELSE settersAfterUnmount \cup {"setLoadingDownload"}
                               \cup (IF failed THEN {"setErrorMsg"} ELSE {}))
                   /\ UNCHANGED loading
    /\ UNCHANGED <<overrideErrors, overrideFor>>
    /\ DownloadFrame

\* a page as it is mounted, with one input of the budget of the behaviour
\* kept back for the downloads
InitDownload ==
    /\ RootUnused
    /\ view \in {"report", "etl"}
    /\ mounted = TRUE
    /\ file = NoFile /\ filesChosen = 0
    /\ previewReqRef = 0 /\ requests = <<>>
    /\ ReportUnused /\ AppUnused /\ FnUnused /\ AuthUnused
    /\ ThemeUnused /\ LangUnused /\ DownloadUnused
    /\ inputs = 1 /\ elapsed = 0 /\ lastChange = "none" /\ issued = NotIssued
    /\ settersAfterUnmount = {}
    /\ watchlists = NoWatchlists /\ watchlistOnly = FALSE
    /\ watchlistWrites = (IF view = "report" THEN 1 ELSE 0)
    /\ recomputed = "none"

NextDownload ==
    \/ Next
    \/ \E b \in BOOLEAN : setOverrideErrors(b)
    \/ onClean
    \/ handleDownload
    \/ \E i \in 1 .. MaxDownloads, answer \in Answers : DownloadSettles(i, answer)

SpecDownload == InitDownload /\ [][NextDownload]_vars

-----------------------------------------------------------------------------
(***************************************************************************)
(* The URL of a request.  lib/api.js builds it from VITE_API_BASE; a URL   *)
(* is a sequence of pieces, a slash or other text.  The helper variables   *)
(* hold the value of VITE_API_BASE (fnItems), the call site (fnPrev) and   *)
(* the URL given to fetch (fnOut).                                         *)
(***************************************************************************)
MaxBase == 3             \* longest VITE_API_BASE given to lib/api.js
Slash == "/"
BasePieces == {Slash, "https:", "host"}

NoEnv == <<"undefined">>  \* VITE_API_BASE is not set

\* RAW_API_BASE: import.meta.env.VITE_API_BASE || ""
RAW_API_BASE(env) == IF env = NoEnv THEN <<>> ELSE env

\* s.replace(/\/+$/, ""): the longest prefix that does not end in a slash
replaceTrailingSlashes(s) ==
    LET solid == {i \in 1 .. Len(s) : s[i] # Slash}
    IN  IF solid = {} THEN <<>>
        ELSE SubSeq(s, 1, CHOOSE i \in solid : \A j \in solid : j <= i)

API_BASE(env) == replaceTrailingSlashes(RAW_API_BASE(env))

\* lib/api.js apiUrl: the path gets a leading slash when it has none
apiUrl(env, p) ==
    LET normalizedPath == IF Len(p) > 0 /\ p[1] = Slash
                          THEN p ELSE <<Slash>> \o p
    IN  API_BASE(env) \o normalizedPath

\* the call sites of fetch: the path written there and whether it is given
\* to apiUrl first
CallSites ==
    { [path |-> <<Slash, "api/preview">>, viaApiUrl |-> TRUE],
      [path |-> <<Slash, "api/clean">>, viaApiUrl |-> TRUE],
      [path |-> <<Slash, "api/report/preview">>, viaApiUrl |-> FALSE],
      [path |-> <<Slash, "api/report/clean">>, viaApiUrl |-> FALSE],
      [path |-> <<Slash, "api/auth/me">>, viaApiUrl |-> TRUE],
      [path |-> <<Slash, "api/auth/signup">>, viaApiUrl |-> TRUE],
      [path |-> <<Slash, "api/auth/login">>, viaApiUrl |-> TRUE] }

\* the first argument of fetch at a call site
FetchUrl(env, site) ==
    IF site.viaApiUrl THEN apiUrl(env, site.path) ELSE site.path

CallFetch ==
    /\ fnPc = "input"
    /\ fnOut' = FetchUrl(fnItems, fnPrev)
    /\ fnPc' = "fetched"
    /\ UNCHANGED <<fnItems, fnPrev, fnUsd, fnThb, fnOut2>>
    /\ UNCHANGED offFnVars

InitUrl ==
    /\ RootUnused
    /\ PageUnused /\ ReportUnused /\ AppUnused /\ ObserversUnused /\ WatchUnused
    /\ AuthUnused /\ ThemeUnused /\ LangUnused /\ DownloadUnused
    /\ fnPc = "input"
    /\ fnItems \in SeqsUpTo(BasePieces, MaxBase) \cup {NoEnv}
    /\ fnPrev \in CallSites
    /\ fnUsd = <<>> /\ fnThb = <<>>
    /\ fnOut = <<>> /\ fnOut2 = <<>>

NextUrl == CallFetch

SpecUrl == InitUrl /\ [][NextUrl]_vars

-----------------------------------------------------------------------------
(***************************************************************************)
(* Root: the route, the loading bar and the page transition.  A handler or *)
(* a timer callback, the render it causes and the effects of that render   *)
(* are one step; the effects run after the whole callback.  Time is not    *)
(* modelled: a pending timer may expire at any moment, so every order of   *)
(* the real delays (0, 190 and 430 ms for the transition, hideAfter for    *)
(* the bar) is among the behaviours.                                       *)
(***************************************************************************)
MaxNavigations == 3      \* calls of navigate and popstate events in one behaviour
\* the paths the browser may show, and those of onGoEth and onGoReport
Paths == {"/", "/report-price", "/other"}
NavTargets == {"/", "/report-price"}

\* the fault in which the loading effect clears its timer and sets none
LoadingEffectNoTimer(p, shown, ref) == FALSE

\* the effect on [path, routeLoading] after a render with path = p and
\* routeLoading = shown, ref being the timer left by the handler: when a
\* dependency changed, the cleanup clears the timer and the body sets a
\* new one if the bar is shown
LoadingEffect(p, shown, ref) ==
    IF p = path /\ shown = routeLoading THEN ref ELSE shown

\* the effect on [displayPath, path]: when a dependency changed, the
\* cleanup (clearPageTransitionTimer) clears the timer behind the ref, and
\* the body returns if path === displayPath and else sets the 0 ms timer
PageTransitionEffect(p, dp, ref) ==
    IF p = path /\ dp = displayPath THEN ref
    ELSE IF p = dp THEN NoPageTimer
    ELSE [stage |-> "start", to |-> p]

RootFrame == UNCHANGED offRootVars

\* a call of navigate or a popstate event is counted
Navigation ==
    /\ navigations < MaxNavigations
    /\ navigations' = navigations + 1

navigate(to) ==
    /\ Navigation
    /\ IF to = pathname
       THEN UNCHANGED <<path, displayPath, pageTransitionPhase, routeLoading,
                        loadingTimerRef, pageTransitionTimerRef, pathname>>
       ELSE /\ routeLoading' = TRUE
            /\ pathname' = to
            /\ path' = to
            /\ loadingTimerRef' = LoadingEffect(to, TRUE, FALSE)
            /\ pageTransitionTimerRef' =
                   PageTransitionEffect(to, displayPath, pageTransitionTimerRef)
            /\ UNCHANGED <<displayPath, pageTransitionPhase>>
    /\ RootFrame

\* the browser moved in the history to an entry with the pathname `to`:
\* onPop calls setPath(window.location.pathname)
onPop(to) ==
    /\ Navigation
    /\ pathname' = to
    /\ path' = to
    /\ loadingTimerRef' = LoadingEffect(to, routeLoading, loadingTimerRef)
    /\ pageTransitionTimerRef' =
           PageTransitionEffect(to, displayPath, pageTransitionTimerRef)
    /\ UNCHANGED <<displayPath, pageTransitionPhase, routeLoading>>
    /\ RootFrame

\* the callback of the timer of the loading effect
LoadingTimerFires ==
    /\ loadingTimerRef
    /\ routeLoading' = FALSE
    /\ loadingTimerRef' = LoadingEffect(path, FALSE, FALSE)
    /\ UNCHANGED <<path, displayPath, pageTransitionPhase,
                   pageTransitionTimerRef, pathname, navigations>>
    /\ RootFrame

\* the callbacks of the three nested timers of the page-transition effect
PageTimerFires ==
    /\ pageTransitionTimerRef # NoPageTimer
    /\ LET t == pageTransitionTimerRef
       IN  IF t.stage = "start"
           THEN /\ pageTransitionPhase' = "exit"
                /\ pageTransitionTimerRef' =
                       PageTransitionEffect(path, displayPath,
                                            [stage |-> "swap", to |-> t.to])
                /\ UNCHANGED displayPath
           ELSE IF t.stage = "swap"
           THEN /\ displayPath' = t.to
                /\ pageTransitionPhase' = "enter"
                /\ pageTransitionTimerRef' =
                       PageTransitionEffect(path, t.to,
                                            [stage |-> "finish", to |-> t.to])
           ELSE /\ pageTransitionPhase' = "idle"
                /\ pageTransitionTimerRef' = NoPageTimer
                /\ UNCHANGED displayPath
    /\ UNCHANGED <<path, routeLoading, loadingTimerRef, pathname, navigations>>
    /\ RootFrame

InitRoot ==
    /\ PageUnused /\ ReportUnused /\ AppUnused /\ ObserversUnused /\ WatchUnused
    /\ FnUnused /\ AuthUnused /\ ThemeUnused /\ LangUnused /\ DownloadUnused
    /\ pathname \in Paths
    /\ path = pathname /\ displayPath = pathname
    /\ pageTransitionPhase = "idle" /\ routeLoading = FALSE
    /\ loadingTimerRef = FALSE /\ pageTransitionTimerRef = NoPageTimer
    /\ navigations = 0

NextRoot ==
    \/ \E to \in NavTargets : navigate(to)
    \/ \E to \in Paths : onPop(to)
    \/ LoadingTimerFires
    \/ PageTimerFires

SpecRoot == InitRoot /\ [][NextRoot]_vars

\* a timer that stays pending expires
SpecRootLive ==
    SpecRoot /\ WF_vars(LoadingTimerFires) /\ WF_vars(PageTimerFires)

-----------------------------------------------------------------------------
(***************************************************************************)
(* Properties of the helpers.  Fold and Strip state "case-insensitive" and *)
(* "trimmed" on their own, without the operators the helpers are built of. *)
(***************************************************************************)
Fold(s) == [i \in DOMAIN s |-> IF s[i] \in 65..90 THEN s[i] + 32 ELSE s[i]]
Strip(s) ==
    LET solid == {i \in 1..Len(s) : s[i] # 32}
    IN  IF solid = {} THEN <<>>
        ELSE SubSeq(s, CHOOSE i \in solid : \A j \in solid : i <= j,
                       CHOOSE i \in solid : \A j \in solid : j <= i)
InKeys(c, list) == \E i \in 1..Len(list) : Fold(list[i]) = Fold(c)

\* the places of `items` that hold the first entry of their key
FirstSeen(items) ==
    {j \in 1..Len(items) :
        /\ Strip(items[j]) # <<>>
        /\ \A i \in 1..(j - 1) : Fold(Strip(items[i])) # Fold(Strip(items[j]))}
NthOf(S, k) == CHOOSE j \in S : Cardinality({i \in S : i < j}) = k - 1

\* C10: normalizeCoinList trims the entries, drops the empty ones, keeps of
\* every case-insensitive key the first entry seen, in its casing and in the
\* order of the input; applied to its own output it changes nothing; and
\* ["btc", "BTC", " eth "] gives ["btc", "eth"].
NormalizeContract ==
    /\ (fnPc \in {"once", "twice"} /\ IsArray(fnItems)) =>
          /\ Len(fnOut) = Cardinality(FirstSeen(fnItems))
          /\ \A k \in 1..Len(fnOut) :
                fnOut[k] = Strip(fnItems[NthOf(FirstSeen(fnItems), k)])
          /\ \A i, j \in 1..Len(fnOut) :
                i # j => Fold(fnOut[i]) # Fold(fnOut[j])
    /\ (fnPc \in {"once", "twice"} /\ ~IsArray(fnItems)) => fnOut = <<>>
    /\ (fnPc \in {"once", "twice"} /\ fnItems = <<btc, BTC, ethPadded>>) =>
          fnOut = <<btc, eth>>
    /\ fnPc = "twice" => fnOut2 = fnOut

NormalizeExample ==
    /\ fnPc = "twice"
    /\ fnItems = <<btc, BTC, ethPadded>>
    /\ fnOut = <<btc, eth>>
    /\ fnOut2 = <<btc, eth>>

\* the entries of prev that are still available, as prev spells them
KeptAsStored(prev, available) ==
    SelectSeq(prev, LAMBDA p : InKeys(p, available))
\* the same entries, as the available list spells them
KeptAsAvailable(prev, available) ==
    LET kept == KeptAsStored(prev, available)
    IN  [i \in 1..Len(kept) |->
            available[CHOOSE j \in 1..Len(available) :
                          Fold(available[j]) = Fold(kept[i])]]
InBoth(available, usd, thb) ==
    SelectSeq(available, LAMBDA a : InKeys(a, usd) /\ InKeys(a, thb))
FirstTwelve(available) ==
    SubSeq(available, 1, IF Len(available) < 12 THEN Len(available) ELSE 12)
Reference(kept, available, usd, thb) ==
    IF available = <<>> THEN <<>>
    ELSE IF kept # <<>> THEN kept
    ELSE IF InBoth(available, usd, thb) # <<>> THEN InBoth(available, usd, thb)
    ELSE FirstTwelve(available)

-----------------------------------------------------------------------------
(***************************************************************************)
(* Properties of the pages.                                                *)
(***************************************************************************)
Displayed == <<meta, coinsUSD, coinsTHB, rawPreview, cleanPreview, errorMsg,
               loadingPreview>>

\* request k takes a step of its continuation (an await of it settles)
Continues(k) ==
    /\ k \in DOMAIN requests
    /\ \/ k \notin DOMAIN requests'
       \/ requests'[k].phase # requests[k].phase

\* C1: report page: when an await of a request settles after a newer request
\* was issued, whatever the outcome, none of meta, coinsUSD, coinsTHB,
\* rawPreview, cleanPreview, errorMsg, loadingPreview changes; and preview
\* data that appears on the page is the data of the latest request.
StaleOutcomeDropped ==
    [][ view = "report" =>
          /\ \A k \in 1..MaxRequests :
                (Continues(k) /\ k # previewReqRef) => UNCHANGED Displayed
          /\ (meta' # meta /\ meta' # EmptyPreview) => meta' = previewReqRef
          /\ (rawPreview' # rawPreview /\ rawPreview' # EmptyPreview) =>
                rawPreview' = previewReqRef
          /\ (errorMsg' # errorMsg /\ errorMsg' # NoError) =>
                errorMsg' = previewReqRef ]_vars

\* the first request (blocking) settled after the second (non-blocking) was
\* issued: had it settled before, its finally block would have cleared the flag
StaleOutcomeSeen ==
    /\ view = "report"
    /\ previewReqRef = 2
    /\ DOMAIN requests = {2}
    /\ ~requests[2].showLoader
    /\ loadingPreview

\* C2: ETL page: previewData is set (to a server payload or to the synthetic
\* payload) only by the latest request and only when it was not aborted; a
\* superseded or aborted request leaves previewData alone, and a superseded
\* one leaves previewLoading alone.
OnlyLatestSetsPreviewData ==
    [][ view = "etl" =>
          /\ (previewData' # previewData /\ previewData'.kind # "null") =>
                /\ previewData'.req = previewReqRef
                /\ previewData'.req \in Live
          /\ \A k \in 1..MaxRequests :
                (Continues(k) /\ (k # previewReqRef \/ requests[k].aborted)) =>
                    UNCHANGED previewData
          /\ \A k \in 1..MaxRequests :
                (Continues(k) /\ k # previewReqRef) => UNCHANGED previewLoading ]_vars

\* a file was dropped, the language was changed, and the first request
\* settled afterwards: settled earlier it would have set previewData, which
\* a change of language does not clear
SupersededSettled ==
    /\ view = "etl"
    /\ inputs = 2 /\ previewReqRef = 2
    /\ DOMAIN requests = {2}
    /\ previewData = NoPreviewData
    /\ previewLoading

\* C3: on either page at most one preview request is in flight and not
\* aborted: issuing a request aborts the one issued before it.
AtMostOneLive == Cardinality(Live) <= 1

SupersededWasAborted ==
    /\ previewReqRef \in Live
    /\ \E k \in DOMAIN requests : k < previewReqRef /\ requests[k].aborted

\* C4: report page: after changes of the coin selection alone, one pending
\* timer at most, one preview call at most, and that call is issued 260 ms
\* after the last change.
DebounceCollapses ==
    (view = "report" /\ lastChange = "refine") =>
        /\ Cardinality(timers) <= 1
        /\ issued.n <= 1
        /\ issued.n = 1 => (issued.at = DebounceMs /\ ~issued.loader)

\* C5: report page: the first call after a structural change is issued at
\* once and with the loader, also when the selection changed in between; the
\* first call after a change of the selection alone is issued after 260 ms
\* without the loader.
StructuralIsImmediate ==
    (view = "report" /\ issued.n = 1) =>
        /\ lastChange = "structural" => (issued.loader /\ issued.at = 0)
        /\ lastChange = "refine" => (~issued.loader /\ issued.at = DebounceMs)

\* the coins parameter of the current configuration
CurrentCoins ==
    IF Len(selected) = 0 THEN <<>> ELSE orderedSelectedCoins(availableCoins, selected)

\* C6: report page: a response is applied to the page only if the request
\* was issued under the configuration the page has now.
AppliedUnderCurrentConfig ==
    [][ view = "report" =>
          \A k \in 1..MaxRequests :
              (Continues(k) /\ k \notin DOMAIN requests' /\ rawPreview' = k) =>
                  /\ requests[k].file = file
                  /\ requests[k].asset = asset
                  /\ requests[k].includeBot = includeBot
                  /\ requests[k].coins = CurrentCoins ]_vars

\* C7: after the page is torn down the continuation of a preview request
\* calls no state setter of the page.
NoSetterAfterUnmount == settersAfterUnmount = {}

\* C8: the coins of a preview request are the selected coins in the order
\* of the available list.
RequestCoinsInAvailableOrder ==
    [][ (view = "report" /\ previewReqRef' = previewReqRef + 1) =>
          requests'[previewReqRef'].coins = inAvailableOrder(availableCoins, selected) ]_vars

-----------------------------------------------------------------------------
(***************************************************************************)
(* The watchlists of ReportPrice.                                          *)
(***************************************************************************)
\* a step that applies the payload of request k
ResponseApplied(k) ==
    /\ k \in DOMAIN requests /\ k \notin DOMAIN requests'
    /\ meta' = k

\* C11: the watchlists change only in a step that applies a response whose
\* coin lists differ from the current ones while a file is selected (so not
\* in reset, file clearing, asset switch, selection changes or the
\* "watchlist only" switch), and a step that leaves the watchlists as they
\* are, recomputed or not, writes nothing to rp_watchlists_v1
WatchlistsFollowCoinLists ==
    [][ /\ watchlists' # watchlists =>
              /\ view = "report" /\ file # NoFile /\ file' = file
              /\ \E k \in DOMAIN requests : ResponseApplied(k)
              /\ <<coinsUSD', coinsTHB'>> # <<coinsUSD, coinsTHB>>
        /\ watchlists' = watchlists => watchlistWrites' = watchlistWrites
        /\ watchlists' # watchlists => watchlistWrites' = watchlistWrites + 1
      ]_vars

\* the watchlists were replaced after the mount, and the latest run of the
\* reconcile effect found the stored lists again
RecomputedTheSame ==
    /\ view = "report" /\ file # NoFile
    /\ watchlistWrites >= 2
    /\ recomputed = "same"
    /\ coinsUSD # <<>>

-----------------------------------------------------------------------------
(***************************************************************************)
(* The session of the AuthBar.                                             *)
(***************************************************************************)
\* the step settles check k, which the session effect still listens to,
\* with a failure (non-2xx status or network error)
LiveCheckFails(k) ==
    /\ k \in DOMAIN checks /\ k \notin DOMAIN checks'
    /\ checks[k].alive
    /\ lastCheck'.outcome = "fail"

\* the step stores a token that a login produced, in this tab or another
NewLogin ==
    \/ written' \in Tokens /\ DOMAIN logins' # DOMAIN logins
    \/ otherToken' = storedToken' /\ Len(toThisTab') > Len(toThisTab)

\* C12: a session check that fails leaves user null, the in-memory token
\* empty and the stored token removed, so that readStoredToken() returns
\* the empty string; and reads keep returning it until a login stores a
\* token again
FailedCheckEndsAnonymous ==
    [][ /\ \A k \in DOMAIN checks :
              LiveCheckFails(k) =>
                  /\ user' = NoUser /\ token' = NoToken
                  /\ storedToken' = NoToken
                  /\ readStoredToken' = NoToken
        /\ (readStoredToken = NoToken /\ readStoredToken' # NoToken) => NewLogin
      ]_vars

\* a failed check has just cleared a token that was stored
FailedCheckCleared ==
    /\ authMounted
    /\ lastCheck.outcome = "fail" /\ lastCheck.token \in Tokens
    /\ written = NoToken
    /\ token = NoToken /\ user = NoUser /\ storedToken = NoToken
    /\ ~storageDenied

\* the session effect listens to a check for the current token
ChecksCurrentToken == \E k \in DOMAIN checks : checks[k].alive /\ checks[k].token = token

\* C13: a mounted AuthBar never holds a non-empty token and no user while
\* no session check for it is in flight (a 2xx answer without a user object
\* would have to clear the token)
NoTokenWithoutUser ==
    (authMounted /\ token # NoToken /\ user = NoUser) => ChecksCurrentToken

\* C14: the session effect listens to at most the newest check, and only
\* while the token is the one that started it; when any other check
\* settles, token, user and the stored token stay as they are and nothing
\* is written
StaleCheckIgnored ==
    [][ \A k \in DOMAIN checks :
          /\ checks[k].alive =>
                /\ authMounted /\ checks[k].token = token
                /\ \A j \in DOMAIN checks : j <= k
          /\ (~checks[k].alive /\ k \notin DOMAIN checks') =>
                /\ UNCHANGED <<token, user, storedToken, toOtherTab>>
                /\ written' = NotWritten
      ]_vars

\* the token changed while a check was in flight, the AuthBar is still
\* the same one, and that check has settled since
StaleCheckSettled ==
    /\ authMounted /\ inputs <= 1
    /\ lastCheck.ignored
    /\ token # NoToken

\* C15: in a mounted AuthBar an empty token goes with no user, and a
\* non-empty token with a session check for it that is in flight or has
\* settled without failing
SessionInvariant ==
    authMounted =>
        /\ token = NoToken => user = NoUser
        /\ token # NoToken =>
              \/ ChecksCurrentToken
              \/ lastCheck.token = token /\ lastCheck.outcome \in {"user", "nouser"}

\* the user logged in, the session check confirmed it, and the user has
\* just logged out
LoggedOutAfterSession ==
    /\ authMounted
    /\ lastCheck.outcome = "user"
    /\ written = NoToken /\ token = NoToken /\ user = NoUser

-----------------------------------------------------------------------------
(***************************************************************************)
(* The token store and its broadcasts.                                     *)
(***************************************************************************)
\* the step called writeStoredToken
Wrote == written' # NotWritten

\* the AuthBar that called writeStoredToken in this step is still mounted
\* (a login may settle after its AuthBar is gone)
WrittenByMounted ==
    /\ Wrote /\ authMounted
    /\ \A k \in DOMAIN logins : k \notin DOMAIN logins' => logins[k].own

TokenEvent(v) == [key |-> TOKEN_KEY, newValue |-> v]

\* what the listeners do with an event, whoever sent it: a storage event
\* for the token key sets the token of the tab it reaches, one for another
\* key changes nothing, and an unmounted AuthBar hears nothing
ListenersFollow ==
    /\ (toThisTab # <<>> /\ toThisTab' = Tail(toThisTab)) =>
          IF authMounted /\ Head(toThisTab).key = TOKEN_KEY
          THEN token' = Head(toThisTab).newValue
          ELSE token' = token
    /\ (toOtherTab # <<>> /\ toOtherTab' = Tail(toOtherTab)) =>
          IF Head(toOtherTab).key = TOKEN_KEY
          THEN otherToken' = Head(toOtherTab).newValue
          ELSE otherToken' = otherToken
    /\ ~authMounted /\ ~authMounted' => token' = token

\* C16 as stated: every writeStoredToken(v) leaves the token of the AuthBar
\* mounted in this document at v and sends the other tab a storage event
\* that carries v (unless that tab holds v already), and the listeners
\* follow the events
EveryWriteIsBroadcast ==
    [][ /\ Wrote => /\ authMounted => token' = written'
                    /\ otherToken # written' =>
                          toOtherTab' = Append(toOtherTab, TokenEvent(written'))
        /\ ListenersFollow
      ]_vars

\* C16 as the code has it: a writeStoredToken(v) whose storage operation
\* took effect leaves the token of the AuthBar mounted in this document at
\* v, and when it changed the item it sends the other tab a storage event
\* that carries v; a write that the storage refused changes neither the
\* item nor the other tab; the listeners follow the events
StoredWriteIsBroadcast ==
    [][ /\ (Wrote /\ storedToken' = written') =>
              /\ (authMounted /\ ~storageDenied) => token' = written'
              /\ storedToken' # storedToken =>
                    toOtherTab' = Append(toOtherTab, TokenEvent(written'))
        /\ (Wrote /\ storedToken' # written') =>
              UNCHANGED <<storedToken, toOtherTab>>
        /\ ListenersFollow
      ]_vars

\* an anonymous AuthBar logged in (request 1), its session check (request
\* 2) is in flight, and the other tab has heard of the token
OtherTabFollowed ==
    /\ authMounted
    /\ token \in Tokens /\ user = UserOf(token) /\ storedToken = token
    /\ started = 2 /\ DOMAIN checks = {2} /\ lastCheck.outcome = "none"
    /\ otherToken = token
    /\ toOtherTab = <<>> /\ toThisTab = <<>>

-----------------------------------------------------------------------------
(***************************************************************************)
(* Properties of the theme.                                                *)
(***************************************************************************)
\* the resolution order, stated by positions: the least root with a valid
\* attribute, else the least readable key with a valid item, else the
\* class dark, else the system preference
FirstValidAttr ==
    LET i == CHOOSE i \in DOMAIN Roots :
                 /\ ValidTheme(dataTheme[Roots[i]])
                 /\ \A j \in 1 .. (i - 1) : ~ValidTheme(dataTheme[Roots[j]])
    IN  dataTheme[Roots[i]]
FirstValidKey ==
    LET i == CHOOSE i \in DOMAIN THEME_KEYS :
                 /\ ValidTheme(themeStore[THEME_KEYS[i]])
                 /\ \A j \in 1 .. (i - 1) : ~ValidTheme(themeStore[THEME_KEYS[j]])
    IN  themeStore[THEME_KEYS[i]]
ResolvedTheme ==
    IF \E r \in RootSet : ValidTheme(dataTheme[r]) THEN FirstValidAttr
    ELSE IF ~themeDenied /\ \E k \in KeySetOfTheme : ValidTheme(themeStore[k])
    THEN FirstValidKey
    ELSE IF \E r \in RootSet : r \in darkClass THEN "dark"
    ELSE IF prefersDark THEN "dark" ELSE "light"

\* C18: readTheme returns the first valid data-theme of the observed roots,
\* else the first valid item of the keys theme, vite-ui-theme, eglc_theme,
\* else dark when a root has class dark, else dark when the system prefers
\* dark, else light; the result is dark or light also when storage access
\* throws.
ReadThemeOrder ==
    themeOut # Unread => themeOut = ResolvedTheme /\ ValidTheme(themeOut)

\* C18 witness: html carries an invalid attribute, body says light, the
\* storage says dark and the system prefers dark: the answer is light.
ReadThemeSkipsToBody ==
    /\ themeOut = "light"
    /\ dataTheme["html"] = "auto" /\ dataTheme["body"] = "light"
    /\ ~themeDenied /\ themeStore["theme"] = "dark"
    /\ darkClass = RootSet /\ prefersDark

\* a step that ran writeTheme or the theme effect of App: these alone
\* dispatch eglc-theme-change
WroteTheme == dispatched' = 1
AllRootsShow(v) ==
    \A r \in RootSet : /\ dataTheme'[r] = v
                       /\ (r \in darkClass') = (v = "dark")
                       /\ (r \in lightClass') = (v = "light")

\* C19: after writeTheme(mode) or the theme effect of App, every observed
\* root has data-theme = mode, class dark iff mode is dark and class light
\* iff mode is light, the color-scheme hint is mode, the three keys hold
\* mode when every setItem returned, and one event was dispatched.
WriteReachesEveryRoot ==
    [][ WroteTheme =>
          /\ ValidTheme(colorScheme')
          /\ AllRootsShow(colorScheme')
          /\ (themeWrites' = Len(THEME_KEYS) =>
                 \A k \in KeySetOfTheme : themeStore'[k] = colorScheme') ]_vars

\* a step in which something other than this tab's writers added the class
\* dark to an observed root
DarkClassAddedExternally ==
    /\ dispatched' = 0
    /\ \E r \in RootSet : r \notin darkClass /\ darkClass' = darkClass \cup {r}

\* C20: with a ModeToggle mounted in mode light, adding the class dark to an
\* observed root from outside makes the ModeToggle's mode dark.
ExternalDarkClassSetsDark ==
    [][ themePage = "report" /\ themeMode = "light" /\ DarkClassAddedExternally
            => themeMode' = "dark" ]_vars

\* what a change from outside is: the keys written by another tab, or the
\* attribute of one root set, or the class dark added to one root
OneExternalChange ==
    \/ /\ themeStore' # themeStore
       /\ dataTheme' = dataTheme /\ darkClass' = darkClass
    \/ /\ themeStore' = themeStore /\ darkClass' = darkClass
       /\ \E r \in RootSet : \A q \in RootSet \ {r} : dataTheme'[q] = dataTheme[q]
    \/ /\ themeStore' = themeStore /\ dataTheme' = dataTheme
       /\ \E r \in RootSet : darkClass' = darkClass \cup {r}

\* C21: the listeners of ModeToggle only read: a step made of a change from
\* outside and its handling sets no key, dispatches no event and changes
\* nothing on the roots beyond that one change; a step of this tab's own
\* writers, whose event the listeners also handle, dispatches one event and
\* runs one setItem loop.
ReconcileReadsOnly ==
    [][ /\ external' => /\ dispatched' = 0 /\ themeWrites' = 0
                        /\ lightClass' = lightClass /\ colorScheme' = colorScheme
                        /\ OneExternalChange
        /\ ~external' => dispatched' <= 1 /\ themeWrites' <= Len(THEME_KEYS) ]_vars

\* C21 witness: ModeToggle was in light; the attribute of html was set to
\* dark from outside; the mode followed and nothing else was touched.
ReconciledWithoutWriting ==
    /\ external /\ themePage = "report" /\ themeMode = "dark"
    /\ dataTheme = [r \in RootSet |-> IF r = "html" THEN "dark" ELSE "light"]
    /\ darkClass = {} /\ lightClass = RootSet /\ colorScheme = "light"
    /\ \A k \in KeySetOfTheme : themeStore[k] = "light"
    /\ dispatched = 0 /\ themeWrites = 0

\* a step in which this tab heard another tab write the theme v
HeardOtherTabWrite(v) ==
    /\ external' /\ themeStore' # themeStore
    /\ \A k \in KeySetOfTheme : themeStore'[k] = v

\* C22: when another tab writes a different theme to the theme keys, the
\* mode of a mounted ModeToggle in this tab becomes that theme.
ModeFollowsOtherTab ==
    [][ \A v \in {"dark", "light"} :
           themePage = "report" /\ themeMode # v /\ HeardOtherTabWrite(v)
               => themeMode' = v ]_vars

-----------------------------------------------------------------------------
(***************************************************************************)
(* Properties of the language switch.                                      *)
(***************************************************************************)
\* no transition is running: no class, no timeout
LangIdle ==
    langSwitching = {} /\ langTimers = {} /\ langTransitionTimer = NoLangTimer
\* a transition is running: every target has the class and the one pending
\* timeout, the one langTransitionTimer names, is due LANG_TRANSITION_MS
\* after the last switch
LangInTransition ==
    /\ langSwitching = LangTargets
    /\ langTimers = {[id |-> langTransitionTimer,
                      remaining |-> LANG_TRANSITION_MS - sinceSwitch]}
    /\ langTransitionTimer = langSwitches

\* C23: the class lang-switching leaves the targets LANG_TRANSITION_MS after
\* the last effective switch and not earlier; a switch during the
\* transition restarts the one timer, so at most one timeout is pending and
\* the class is on the targets only while that timeout is pending.
MarkerRemovedAfterLastSwitch ==
    [][ /\ (LangIdle \/ LangInTransition)'
        /\ langSwitching' # langSwitching /\ langSwitching' = {}
              => sinceSwitch = LANG_TRANSITION_MS /\ LangIdle' ]_vars

\* C23 witness: a second switch was made during the transition of the
\* first, and the class has left the targets 260 ms after the second.
RestartedTransitionEnded ==
    /\ langSwitches = 2 /\ langRestarts = 1 /\ sinceSwitch = LANG_TRANSITION_MS
    /\ langSwitching = {} /\ langTimers = {}

-----------------------------------------------------------------------------
(***************************************************************************)
(* Properties of the downloads.                                            *)
(***************************************************************************)
\* the header holds filename="<text>" with a non-empty text free of quotes,
\* the text being the pieces from place a to place b
QuotedAt(h, a, b) ==
    /\ a >= 3 /\ a <= b /\ b < Len(h)
    /\ h[a - 2] = FilenameIs /\ h[a - 1] = Quote /\ h[b + 1] = Quote
    /\ \A j \in a .. b : h[j] # Quote
HasQuotedName(h) ==
    /\ h # NullHeader
    /\ \E a \in 1 .. Len(h), b \in 1 .. Len(h) : QuotedAt(h, a, b)
FirstQuotedName(h) ==
    LET a == CHOOSE a \in 1 .. Len(h) :
                 /\ \E b \in 1 .. Len(h) : QuotedAt(h, a, b)
                 /\ \A c \in 1 .. (a - 1) : \A b \in 1 .. Len(h) : ~QuotedAt(h, c, b)
        b == CHOOSE b \in 1 .. Len(h) : QuotedAt(h, a, b)
    IN  [j \in 1 .. (b - a + 1) |-> h[a + j - 1]]

\* C24: the saved file gets the fixed default name of its flow when the
\* content-disposition header is absent or holds no filename="<non-empty
\* text>", and otherwise exactly the text between the quotes.
FilenameOrDefault ==
    filename # NoName =>
        filename = IF HasQuotedName(disposition) THEN FirstQuotedName(disposition)
                   ELSE IF dlFlow = "etl" THEN CLEAN_CSV ELSE REPORT_CLEAN_XLSX

\* C24 witness: the header says filename="" and the report flow saved
\* under its default name.
EmptyQuotedNameGivesDefault ==
    /\ dlFlow = "report" /\ disposition = <<FilenameIs, Quote, Quote>>
    /\ filename = REPORT_CLEAN_XLSX

\* a step that issued a download request, and the request it issued
DownloadIssued == Len(downloads') = Len(downloads) + 1
IssuedDownload == downloads'[Len(downloads')]

\* C25: a download answered with a status that is not 2xx surfaces the
\* server's structured error text when there is one and HTTP <status>
\* otherwise, in the ETL flow and in the report flow; the loading flag is
\* cleared and nothing is saved.
ServerErrorSurfaced ==
    [][ \A i \in 1 .. MaxDownloads, answer \in Answers :
           mounted /\ answer.kind = "error" /\ DownloadSettles(i, answer)
              => /\ surfaced' = (IF answer.detail # "" THEN answer.detail
                                 ELSE StatusText(answer.status))
                 /\ saved' = NoName
                 /\ ~loading' /\ ~loadingDownload' ]_vars

\* C26: at most one download request is in flight, and while it is the
\* loading flag of a mounted page is set, which disables the action.
OneDownloadInFlight ==
    /\ Len(downloads) <= 1
    /\ downloads # <<>> /\ mounted =>
          IF view = "etl" THEN loading ELSE loadingDownload

\* C26 witness: a download of the report page is pending while a file is
\* chosen and coins are selected, so that only the flag holds back a second
\* request.
SecondDownloadHeldBack ==
    /\ view = "report" /\ mounted /\ file # NoFile /\ Len(selected) # 0
    /\ Len(downloads) = 1 /\ loadingDownload

\* C27: every POST /api/report/clean carries a file and a non-empty coins
\* parameter.
ReportDownloadHasCoins ==
    [][ DownloadIssued /\ view = "report"
            => IssuedDownload.file # NoFile /\ IssuedDownload.coins # <<>> ]_vars

\* C28: the ETL page issues no POST /api/clean while previewData reports
\* errors and "download anyway" is not ticked; dropping a file or resetting
\* the view unticks it, so that it is ticked only for the file it was
\* ticked for.
ErrorsBlockCleanUnlessOverridden ==
    [][ /\ DownloadIssued /\ view = "etl" => ~hasErrors \/ overrideErrors
        /\ file' # file => ~overrideErrors'
        /\ overrideErrors' => file' # NoFile /\ overrideFor' = file' ]_vars

\* C28 witness: "download anyway" was ticked for the first file; a second
\* file was dropped, its preview failed, and its download is held back.
OverrideDidNotCarryOver ==
    /\ view = "etl" /\ mounted /\ file = 2 /\ overrideFor = 1
    /\ hasErrors /\ ~overrideErrors /\ blockDownload
    /\ ~loading /\ downloads = <<>>

-----------------------------------------------------------------------------
(***************************************************************************)
(* Properties of the preview outcomes.                                     *)
(***************************************************************************)
\* request k settles in this step
Settles(k) == k \in DOMAIN requests /\ k \notin DOMAIN requests'
\* ... as a failure that is no cancellation: the fetch was rejected, or the
\* status was not 2xx
FailedPreview(k) ==
    /\ Settles(k) /\ ~requests[k].aborted
    /\ requests[k].phase = "fetch" \/ ~requests[k].ok
\* ... as a cancellation
CancelledPreview(k) == Settles(k) /\ requests[k].aborted
PreviewTables == <<rawPreview, cleanPreview, meta, coinsUSD, coinsTHB>>

\* C29: a failure of the latest preview request that is no cancellation
\* makes previewData the synthetic one-error payload on the ETL page, and on
\* the report page sets errorMsg and leaves rawPreview, cleanPreview, meta
\* and the coin lists as they are; a cancelled request changes neither the
\* preview data nor the error state.
FailureAndCancellation ==
    [][ \A k \in 1 .. MaxRequests :
          /\ FailedPreview(k) /\ IsLatest(k) /\ mounted /\ view = "etl" =>
                previewData' = [kind |-> "synthetic", req |-> k, error_count |-> 1]
          /\ FailedPreview(k) /\ IsLatest(k) /\ mounted /\ view = "report" =>
                errorMsg' = k /\ UNCHANGED PreviewTables
          /\ CancelledPreview(k) =>
                UNCHANGED <<PreviewTables, errorMsg, previewData>> ]_vars

\* C29 witness: the report page shows the tables of request 1 and the error
\* of request 2.
TablesKeptUnderError ==
    /\ view = "report" /\ mounted
    /\ errorMsg = 2 /\ previewReqRef = 2
    /\ meta = 1 /\ rawPreview = 1 /\ cleanPreview = 1 /\ coinsUSD # <<>>

\* C30: on the report page rawPreview, cleanPreview and meta come from one
\* preview response, or are the empty values of a reset or of a response
\* without them: no two of them come from two different requests.
TripleFromOneResponse ==
    view = "report" =>
        Cardinality({meta, rawPreview, cleanPreview} \ {EmptyPreview}) <= 1

\* C30 witness: the response of a second request has replaced all three.
TripleReplacedTogether ==
    /\ view = "report" /\ mounted /\ file # NoFile
    /\ meta = 2 /\ rawPreview = 2 /\ cleanPreview = 2


-----------------------------------------------------------------------------
(***************************************************************************)
(* Properties of the request URLs.                                         *)
(***************************************************************************)
\* the base without the slashes at its end, stated by what it is: a prefix
\* of the configured value, followed there by slashes only, that is empty
\* or ends in something else than a slash
IsStrippedBase(b, env) ==
    /\ Len(b) <= Len(env)
    /\ b = SubSeq(env, 1, Len(b))
    /\ \A i \in (Len(b) + 1) .. Len(env) : env[i] = Slash
    /\ (b = <<>> \/ b[Len(b)] # Slash)

Configured == IF fnItems = NoEnv THEN <<>> ELSE fnItems

\* C31: every request goes to VITE_API_BASE without its trailing slashes,
\* followed by the path with exactly one leading slash.
EveryRequestUsesApiBase ==
    fnPc = "fetched" =>
        \E b \in SeqsUpTo(BasePieces, MaxBase) :
            /\ IsStrippedBase(b, Configured)
            /\ fnOut = b \o fnPrev.path

-----------------------------------------------------------------------------
(***************************************************************************)
(* Two tabs and a failed session check.                                    *)
(***************************************************************************)
\* C32: a failed session check for token T removes the stored token only
\* if the stored token is still T when the check settles; a token that
\* another tab stored after the check began, and whose storage event this
\* tab has not processed yet, stays stored.
FailedCheckSparesNewerToken ==
    [][ \A k \in DOMAIN checks :
          (LiveCheckFails(k) /\ storedToken # checks[k].token) =>
              storedToken' = storedToken
      ]_vars

-----------------------------------------------------------------------------
(***************************************************************************)
(* The report page after resetAll, and after a response.                   *)
(***************************************************************************)
\* C33: while no file is chosen (at the start and after resetAll) meta is
\* null and coinsUSD, coinsTHB, rawPreview and cleanPreview are empty: the
\* response of a request issued before the reset is never applied.
ResetStaysEmpty ==
    (view = "report" /\ file = NoFile) =>
        /\ meta = EmptyPreview
        /\ coinsUSD = <<>> /\ coinsTHB = <<>>
        /\ rawPreview = EmptyPreview /\ cleanPreview = EmptyPreview

\* C34: choosing a file and making no further input results in exactly one
\* preview request: applying its response, which replaces the coin lists,
\* schedules no second request.
OneRequestPerFile ==
    (view = "report" /\ file # NoFile /\ inputs = 1) =>
        /\ previewReqRef <= 1
        /\ (previewReqRef = 1 => timers = NoTimer)

-----------------------------------------------------------------------------
(***************************************************************************)
(* The loading flag of the previews.                                       *)
(***************************************************************************)
\* the request issued last has not settled yet
LatestPending == previewReqRef \in DOMAIN requests

-----------------------------------------------------------------------------
(***************************************************************************)
(* AuthBar: checkingSession and the login requests.                        *)
(***************************************************************************)
\* C36: checkingSession is true only while a session check is in flight
\* (for the claim, one for the current non-empty token): after a logout or
\* a token change that happens during a check it is false once no check is
\* pending any more.
CheckingOnlyWhileChecking ==
    (authMounted /\ checkingSession) => DOMAIN checks # {}

\* the login / signup requests that the mounted AuthBar sent and that have
\* not settled
OwnLogins == {k \in DOMAIN logins : logins[k].own}

\* C37: at most one login / signup request of an AuthBar is in flight at
\* any time, also when the modal is closed and opened again while a request
\* is pending.
OneLoginInFlight ==
    authMounted => Cardinality(OwnLogins) <= 1

-----------------------------------------------------------------------------
(***************************************************************************)
(* Properties of Root.                                                     *)
(***************************************************************************)
\* C38: whenever path equals displayPath and no transition timer is
\* pending, the phase of the page transition is idle: it is never left at
\* exit or enter.
PhaseIdleAtRest ==
    (path = displayPath /\ pageTransitionTimerRef = NoPageTimer) =>
        pageTransitionPhase = "idle"

\* the route is at rest: the page on screen is the page of the path and
\* the loading bar is hidden
RouteAtRest == displayPath = path /\ ~routeLoading

\* C39: once the navigations stop, displayPath comes to equal path and the
\* loading bar is hidden, and they stay so; and navigate(to) with `to` the
\* current pathname changes nothing.
RoutingSettles ==
    /\ <>[]RouteAtRest
    /\ [][ \A to \in NavTargets :
             (navigate(to) /\ to = pathname) =>
                 UNCHANGED <<path, displayPath, pageTransitionPhase,
                             routeLoading, loadingTimerRef,
                             pageTransitionTimerRef, pathname>>
         ]_vars

\* C39 witness: every navigation of the behaviour is done, one of them
\* went back while the page was leaving (the phase is still exit), the
\* timers have expired, and the route is at rest.
SettledAfterNavigations ==
    /\ navigations = MaxNavigations
    /\ RouteAtRest
    /\ loadingTimerRef = FALSE /\ pageTransitionTimerRef = NoPageTimer
    /\ pageTransitionPhase = "exit"

-----------------------------------------------------------------------------
(***************************************************************************)
(* reconcileWatchlist as a fixpoint.                                       *)
(***************************************************************************)
\* the entries of normalize(items), stated without normalizeCoinList
NormalizedEntries(items) == {Strip(items[j]) : j \in FirstSeen(items)}

\* C40: the result of reconcileWatchlist holds no two entries that are
\* equal up to case, every entry is an entry of normalize(available) as the
\* available list spells it, and reconciling the result again with the same
\* coin lists gives the result back.
ReconcileIsFixpoint ==
    /\ fnPc \in {"once", "twice"} =>
          /\ \A i, j \in 1..Len(fnOut) : i # j => Fold(fnOut[i]) # Fold(fnOut[j])
          /\ \A i \in 1..Len(fnOut) : fnOut[i] \in NormalizedEntries(fnItems)
    /\ fnPc = "twice" => fnOut2 = fnOut

\* C40 witness: the stored entry btc is kept as BTC, the spelling of the
\* available list, and the second reconciliation changes nothing.
ReconciledTwice ==
    /\ fnPc = "twice"
    /\ fnPrev = <<btc>> /\ fnItems = <<BTC, ETH>>
    /\ fnOut = <<BTC>> /\ fnOut2 = <<BTC>>

=============================================================================
